---- MODULE Spec2Model ----
(***************************************************************************)
(* A model of turret's build pipeline (pkg/build.Execute), its package,   *)
(* user and find command factories, and the container frontends that run  *)
(* the manufactured commands in the working container.                    *)
(*                                                                         *)
(* Every call the pipeline makes on the store, on the Buildah builder or   *)
(* in the working container is appended to the run's operation log `ops`,  *)
(* with the argument vector, the added capabilities and the network        *)
(* policy it was issued with.                                              *)
(***************************************************************************)
EXTENDS Integers, Sequences, FiniteSets, TLC

\* ------------------------------------------------------------------------
\* Bounds of the model
\* ------------------------------------------------------------------------

\* longest list of packages to install
MaxPkgs == 1

\* longest list of supplementary groups of the user
MaxGroups == 2

\* largest number of copy rules
MaxCopy == 2

\* ------------------------------------------------------------------------
\* Helpers on sequences
\* ------------------------------------------------------------------------

Range(s) == {s[i] : i \in 1..Len(s)}

Prefix(s, n) == SubSeq(s, 1, n)

\* ------------------------------------------------------------------------
\* Backend identifiers and distro defaults
\* ------------------------------------------------------------------------

PackageBackends == {"APK", "APT", "DNF", "Pacman", "XBPS", "Zypper"}

UserBackends == {"BusyBox", "Shadow"}

FindBackends == {"BSD", "BusyBox", "GNU"}

Distros == {"Alpine", "Arch", "Chimera", "Debian", "Fedora", "openSUSE", "Void"}

\* the zero value of a backend identifier
Unknown == "unknown"

DefaultPackageBackend(d) ==
    CASE d \in {"Alpine", "Chimera"} -> "APK"
      [] d = "Arch" -> "Pacman"
      [] d = "Debian" -> "APT"
      [] d = "Fedora" -> "DNF"
      [] d = "openSUSE" -> "Zypper"
      [] d = "Void" -> "XBPS"
      [] OTHER -> Unknown

DefaultUserBackend(d) ==
    CASE d = "Alpine" -> "BusyBox"
      [] d \in {"Arch", "Chimera", "Debian", "Fedora", "openSUSE", "Void"} -> "Shadow"
      [] OTHER -> Unknown

\* a lookup that has no case for Chimera
MutDefaultFindBackend(d) ==
    CASE d = "Alpine" -> "BusyBox"
      [] d \in {"Arch", "Debian", "Fedora", "openSUSE", "Void"} -> "GNU"
      [] OTHER -> Unknown

DefaultFindBackend(d) ==
    CASE d = "Alpine" -> "BusyBox"
      [] d = "Chimera" -> "BSD"
      [] d \in {"Arch", "Debian", "Fedora", "openSUSE", "Void"} -> "GNU"
      [] OTHER -> Unknown

\* ------------------------------------------------------------------------
\* Package command factories: argument vector and capabilities per command
\* ------------------------------------------------------------------------

Descriptor(cmd, capabilities) == [cmd |-> cmd, capabilities |-> capabilities]

APKNewCleanCacheCmd == Descriptor(<<>>, <<>>)

APKNewInstallCmd(packages) ==
    Descriptor(<<"apk", "--no-cache", "--no-progress", "--quiet", "add">> \o packages,
               <<>>)

APKNewUpdateIndexCmd == Descriptor(<<>>, <<>>)

APKNewUpgradeCmd ==
    Descriptor(<<"apk", "--no-cache", "--no-progress", "--quiet", "upgrade">>, <<>>)

APTNewCleanCacheCmd ==
    Descriptor(<<"apt", "--quiet", "clean">>,
               <<"CAP_CHOWN", "CAP_DAC_OVERRIDE", "CAP_FOWNER">>)

APTNewInstallCmd(packages) ==
    Descriptor(<<"apt", "--quiet", "--yes", "install">> \o packages,
               <<"CAP_CHOWN", "CAP_DAC_OVERRIDE", "CAP_FOWNER", "CAP_SETGID",
                 "CAP_SETUID">>)

APTNewUpdateIndexCmd ==
    Descriptor(<<"apt", "--quiet", "update">>,
               <<"CAP_CHOWN", "CAP_DAC_OVERRIDE", "CAP_FOWNER", "CAP_SETGID",
                 "CAP_SETUID">>)

APTNewUpgradeCmd ==
    Descriptor(<<"apt", "--quiet", "--yes", "upgrade">>,
               <<"CAP_CHOWN", "CAP_DAC_OVERRIDE", "CAP_FOWNER", "CAP_SETGID",
                 "CAP_SETUID">>)

DNFNewCleanCacheCmd == Descriptor(<<"dnf", "--quiet", "clean", "all">>, <<>>)

\* an install command that leaves CAP_SETFCAP out
MutDNFNewInstallCmd(packages) ==
    Descriptor(<<"dnf", "--assumeyes", "--quiet", "--setopt=install_weak_deps=False",
                 "install">> \o packages,
               <<"CAP_CHOWN", "CAP_DAC_OVERRIDE">>)

DNFNewInstallCmd(packages) ==
    Descriptor(<<"dnf", "--assumeyes", "--quiet", "--setopt=install_weak_deps=False",
                 "install">> \o packages,
               <<"CAP_CHOWN", "CAP_DAC_OVERRIDE", "CAP_SETFCAP">>)

DNFNewUpdateIndexCmd == Descriptor(<<>>, <<>>)

DNFNewUpgradeCmd ==
    Descriptor(<<"dnf", "--assumeyes", "--quiet", "--refresh", "upgrade">>,
               <<"CAP_CHOWN", "CAP_DAC_OVERRIDE", "CAP_SETFCAP">>)

PacmanNewCleanCacheCmd ==
    Descriptor(<<"pacman", "--sync", "--clean", "--clean", "--noconfirm", "--quiet">>,
               <<>>)

PacmanNewInstallCmd(packages) ==
    Descriptor(<<"pacman", "--sync", "--noconfirm", "--noprogressbar", "--quiet">>
                 \o packages,
               <<"CAP_CHOWN", "CAP_DAC_OVERRIDE", "CAP_FOWNER", "CAP_SYS_CHROOT">>)

PacmanNewUpdateIndexCmd == Descriptor(<<>>, <<>>)

PacmanNewUpgradeCmd ==
    Descriptor(<<"pacman", "--sync", "--sysupgrade", "--refresh", "--noconfirm",
                 "--noprogressbar", "--quiet">>,
               <<"CAP_CHOWN", "CAP_DAC_OVERRIDE", "CAP_FOWNER", "CAP_SYS_CHROOT">>)

XBPSNewCleanCacheCmd == Descriptor(<<"xbps-remove", "--clean-cache", "--yes">>, <<>>)

XBPSNewInstallCmd(packages) ==
    Descriptor(<<"xbps-install", "--yes">> \o packages, <<"CAP_DAC_OVERRIDE">>)

XBPSNewUpdateIndexCmd == Descriptor(<<>>, <<>>)

XBPSNewUpgradeCmd ==
    Descriptor(<<"xbps-install", "--sync", "--update", "--yes">>, <<"CAP_DAC_OVERRIDE">>)

ZypperNewCleanCacheCmd ==
    Descriptor(<<"zypper", "--non-interactive", "--quiet", "clean", "--all">>, <<>>)

ZypperNewInstallCmd(packages) ==
    Descriptor(<<"zypper", "--non-interactive", "--quiet", "install",
                 "--no-recommends">> \o packages, <<>>)

ZypperNewUpdateIndexCmd == Descriptor(<<>>, <<>>)

ZypperNewUpgradeCmd ==
    Descriptor(<<"zypper", "--non-interactive", "--quiet", "patch">>, <<>>)

\* pckg.NewCommandFactory: the factory of backend b, method by method
NewCleanCacheCmd(b) ==
    CASE b = "APK" -> APKNewCleanCacheCmd
      [] b = "APT" -> APTNewCleanCacheCmd
      [] b = "DNF" -> DNFNewCleanCacheCmd
      [] b = "Pacman" -> PacmanNewCleanCacheCmd
      [] b = "XBPS" -> XBPSNewCleanCacheCmd
      [] b = "Zypper" -> ZypperNewCleanCacheCmd

NewInstallCmd(b, packages) ==
    CASE b = "APK" -> APKNewInstallCmd(packages)
      [] b = "APT" -> APTNewInstallCmd(packages)
      [] b = "DNF" -> DNFNewInstallCmd(packages)
      [] b = "Pacman" -> PacmanNewInstallCmd(packages)
      [] b = "XBPS" -> XBPSNewInstallCmd(packages)
      [] b = "Zypper" -> ZypperNewInstallCmd(packages)

NewUpdateIndexCmd(b) ==
    CASE b = "APK" -> APKNewUpdateIndexCmd
      [] b = "APT" -> APTNewUpdateIndexCmd
      [] b = "DNF" -> DNFNewUpdateIndexCmd
      [] b = "Pacman" -> PacmanNewUpdateIndexCmd
      [] b = "XBPS" -> XBPSNewUpdateIndexCmd
      [] b = "Zypper" -> ZypperNewUpdateIndexCmd

NewUpgradeCmd(b) ==
    CASE b = "APK" -> APKNewUpgradeCmd
      [] b = "APT" -> APTNewUpgradeCmd
      [] b = "DNF" -> DNFNewUpgradeCmd
      [] b = "Pacman" -> PacmanNewUpgradeCmd
      [] b = "XBPS" -> XBPSNewUpgradeCmd
      [] b = "Zypper" -> ZypperNewUpgradeCmd

\* ------------------------------------------------------------------------
\* User command factories
\* ------------------------------------------------------------------------

\* A user.Options value is a record [ID, UserGroup, Groups, Comment, CreateHome];
\* Comment is <<>> for a nil pointer and <<text>> otherwise.

\* strings.Join(groups, ",")
RECURSIVE JoinComma(_)
JoinComma(groups) ==
    IF Len(groups) = 0 THEN ""
    ELSE IF Len(groups) = 1 THEN groups[1]
    ELSE groups[1] \o "," \o JoinComma(Tail(groups))

ShadowNewCreateUserCmd(name, options) ==
    Descriptor(
        <<"useradd">>
          \o (IF options.ID > 0 THEN <<"--uid", ToString(options.ID)>> ELSE <<>>)
          \o (IF options.UserGroup THEN <<"--user-group">> ELSE <<>>)
          \o (IF Len(options.Groups) > 0
              THEN <<"--groups", JoinComma(options.Groups)>> ELSE <<>>)
          \o (IF options.Comment # <<>>
              THEN <<"--comment", options.Comment[1]>> ELSE <<>>)
          \o (IF options.CreateHome THEN <<"--create-home">> ELSE <<>>)
          \o <<name>>,
        <<"CAP_CHOWN", "CAP_DAC_OVERRIDE", "CAP_FOWNER">>)

ShadowNewAddUserToGroupCmd(user, group) == Descriptor(<<>>, <<>>)

BusyBoxNewCreateUserCmd(name, options) ==
    Descriptor(
        <<"adduser", "-D">>
          \o (IF options.ID > 0 THEN <<"-u", ToString(options.ID)>> ELSE <<>>)
          \o (IF options.Comment # <<>>
              THEN <<"-g", options.Comment[1]>> ELSE <<>>)
          \o (IF options.CreateHome THEN <<"-h", "/home/" \o name>> ELSE <<>>)
          \o <<name>>,
        <<"CAP_CHOWN", "CAP_FOWNER">>)

BusyBoxNewAddUserToGroupCmd(name, group) ==
    Descriptor(<<"addgroup", name, group>>, <<>>)

\* user.NewCommandFactory: the factory of backend b
NewCreateUserCmd(b, name, options) ==
    CASE b = "BusyBox" -> BusyBoxNewCreateUserCmd(name, options)
      [] b = "Shadow" -> ShadowNewCreateUserCmd(name, options)

NewAddUserToGroupCmd(b, user, group) ==
    CASE b = "BusyBox" -> BusyBoxNewAddUserToGroupCmd(user, group)
      [] b = "Shadow" -> ShadowNewAddUserToGroupCmd(user, group)

\* ------------------------------------------------------------------------
\* Find command factories
\* ------------------------------------------------------------------------

BusyBoxNewFindSpecialCmd ==
    Descriptor(<<"find", "/", "-xdev", "(", "-perm", "+2000", "-o", "-perm", "+4000",
                 ")">>, <<>>)

GNUNewFindSpecialCmd ==
    Descriptor(<<"find", "/", "-xdev", "-perm", "/u=s,g=s">>, <<"CAP_DAC_READ_SEARCH">>)

BSDNewFindSpecialCmd ==
    Descriptor(<<"find", "-x", "/", "-perm", "+u=s,g=s">>, <<"CAP_DAC_READ_SEARCH">>)

\* find.NewCommandFactory: the factory of backend b
NewFindSpecialCmd(b) ==
    CASE b = "BSD" -> BSDNewFindSpecialCmd
      [] b = "BusyBox" -> BusyBoxNewFindSpecialCmd
      [] b = "GNU" -> GNUNewFindSpecialCmd

\* ------------------------------------------------------------------------
\* The container execution context
\* ------------------------------------------------------------------------

\* run options that leave networking enabled
MutDefaultRunOptions(env) ==
    [ConfigureNetwork |-> "NetworkEnabled", AddCapabilities |-> <<>>, Env |-> env]

\* Container.DefaultRunOptions: networking disabled, no added capabilities,
\* the container's common environment
DefaultRunOptions(env) ==
    [ConfigureNetwork |-> "NetworkDisabled", AddCapabilities |-> <<>>, Env |-> env]

\* An entry of the operation log.  op is the call made ("exists", "create",
\* "run", "add", "configure", "commit", "delete", "shutdown"), step the
\* pipeline step that made it, cmd the logical command of a "run", argv its
\* argument vector, caps/net/env its run options, ok the call's outcome (for
\* "exists": the boolean the store returned), out the standard output captured
\* from a "run" that the caller reads (<<>> otherwise), co the
\* buildah.CommitOptions of a "commit" (<<>> otherwise).
Entry(op, step, cmd, argv, caps, net, env, ok) ==
    [op |-> op, step |-> step, cmd |-> cmd, argv |-> argv, caps |-> caps,
     net |-> net, env |-> env, ok |-> ok, out |-> <<>>, co |-> <<>>]

\* Container.Run of one command with the given run options
Run(step, name, cmd, ro, ok) ==
    Entry("run", step, name, cmd, ro.AddCapabilities, ro.ConfigureNetwork, ro.Env, ok)

\* a call on the store or on the builder that is not a container process
Call(op, step, argv, ok) ==
    Entry(op, step, "", argv, <<>>, "", <<>>, ok)

\* A planned invocation: what a frontend is about to hand to runWithLogging,
\* and the standard output the command prints when the caller reads it
PlannedOut(name, cmd, ro, errContext, out) ==
    [name |-> name, cmd |-> cmd, ro |-> ro, errContext |-> errContext, out |-> out]

Planned(name, cmd, ro, errContext) == PlannedOut(name, cmd, ro, errContext, <<>>)

\* what a failing command may leave on its standard error
ErrTexts == {"", "permission denied"}

\* runWithLogging: the error of a failed command is its context, the standard
\* error text when there is one, and the cause
RunError(errContext, errText) ==
    <<errContext>> \o (IF errText # "" THEN <<errText>> ELSE <<>>) \o <<"exit status">>

\* a runner that issues a failed command a second time before giving up
MutRunPlan(step, plan, failAt, errText) ==
    LET last == IF failAt \in 1..Len(plan) THEN failAt ELSE Len(plan)
        issued == [i \in 1..last |->
                     [Run(step, plan[i].name, plan[i].cmd, plan[i].ro, i # failAt)
                        EXCEPT !.out = IF i # failAt THEN plan[i].out ELSE <<>>]]
    IN  [ops |-> IF failAt \in 1..Len(plan)
                 THEN Append(issued, issued[last]) ELSE issued,
         err |-> IF failAt \in 1..Len(plan)
                 THEN RunError(plan[failAt].errContext, errText)
                 ELSE <<>>]

\* Sequential execution of a plan with an early return at the first failing
\* command: failAt is the index of the command that exits non-zero (0: none),
\* errText what it wrote to its standard error.  The result holds the
\* invocations issued and the error returned (<<>>: nil).
RunPlan(step, plan, failAt, errText) ==
    LET last == IF failAt \in 1..Len(plan) THEN failAt ELSE Len(plan)
    IN  [ops |-> [i \in 1..last |->
                    [Run(step, plan[i].name, plan[i].cmd, plan[i].ro, i # failAt)
                       EXCEPT !.out = IF i # failAt THEN plan[i].out ELSE <<>>]],
         err |-> IF failAt \in 1..Len(plan)
                 THEN RunError(plan[failAt].errContext, errText)
                 ELSE <<>>]

\* ------------------------------------------------------------------------
\* Package frontends
\* ------------------------------------------------------------------------

WithCapabilities(ro, capabilities) == [ro EXCEPT !.AddCapabilities = capabilities]

WithNetwork(ro) == [ro EXCEPT !.ConfigureNetwork = "NetworkEnabled"]

PlanCleanCache(b, env) ==
    LET d == NewCleanCacheCmd(b)
    IN  Planned("clean-cache", d.cmd,
                WithCapabilities(DefaultRunOptions(env), d.capabilities),
                "cleaning " \o b \o " package caches")

PlanInstall(b, env, packages) ==
    LET d == NewInstallCmd(b, packages)
    IN  Planned("install", d.cmd,
                WithNetwork(WithCapabilities(DefaultRunOptions(env), d.capabilities)),
                "installing " \o b \o " packages")

PlanUpgrade(b, env) ==
    LET d == NewUpgradeCmd(b)
    IN  Planned("upgrade", d.cmd,
                WithNetwork(WithCapabilities(DefaultRunOptions(env), d.capabilities)),
                "upgrading pre-installed " \o b \o " packages")

PlanUpdateIndex(b, env) ==
    LET d == NewUpdateIndexCmd(b)
    IN  Planned("update-index", d.cmd,
                WithNetwork(WithCapabilities(DefaultRunOptions(env), d.capabilities)),
                "updating " \o b \o " package index")

\* PackageFrontend.CleanCaches
PackageFrontendCleanCaches(b, env) == <<PlanCleanCache(b, env)>>

\* PackageFrontend.Install
PackageFrontendInstall(b, env, packages) == <<PlanInstall(b, env, packages)>>

\* PackageFrontend.Upgrade
PackageFrontendUpgrade(b, env) == <<PlanUpgrade(b, env)>>

\* an APT frontend that installs without refreshing the index
MutAPTPackageFrontendInstall(b, env, packages) == <<PlanInstall(b, env, packages)>>

\* APTPackageFrontend.Install: update the index, then install
APTPackageFrontendInstall(b, env, packages) ==
    <<PlanUpdateIndex(b, env), PlanInstall(b, env, packages)>>

\* APTPackageFrontend.Upgrade: update the index, then upgrade
APTPackageFrontendUpgrade(b, env) ==
    <<PlanUpdateIndex(b, env), PlanUpgrade(b, env)>>

\* NewPackageFrontend: the APT frontend overrides Install and Upgrade
Install(b, env, packages) ==
    IF b = "APT" THEN APTPackageFrontendInstall(b, env, packages)
    ELSE PackageFrontendInstall(b, env, packages)

Upgrade(b, env) ==
    IF b = "APT" THEN APTPackageFrontendUpgrade(b, env)
    ELSE PackageFrontendUpgrade(b, env)

\* ------------------------------------------------------------------------
\* User frontends
\* ------------------------------------------------------------------------

\* a frontend whose add-to-group commands keep the capabilities of adduser
MutBusyBoxUserFrontendCreateUser(env, name, options) ==
    LET d == BusyBoxNewCreateUserCmd(name, options)
        ro == WithCapabilities(DefaultRunOptions(env), d.capabilities)
        ctx == "adding user to group using BusyBox"
    IN  <<Planned("create-user", d.cmd, ro, "creating user using BusyBox")>>
        \o (IF options.UserGroup
            THEN <<Planned("add-to-group", BusyBoxNewAddUserToGroupCmd(name, name).cmd,
                           ro, ctx)>>
            ELSE <<>>)
        \o [i \in 1..Len(options.Groups) |->
              Planned("add-to-group",
                      BusyBoxNewAddUserToGroupCmd(name, options.Groups[i]).cmd, ro, ctx)]

\* a frontend that adds the user to its own group last
MutBusyBoxUserFrontendOwnGroupLast(env, name, options) ==
    LET d == BusyBoxNewCreateUserCmd(name, options)
        ctx == "adding user to group using BusyBox"
    IN  <<Planned("create-user", d.cmd,
                  WithCapabilities(DefaultRunOptions(env), d.capabilities),
                  "creating user using BusyBox")>>
        \o [i \in 1..Len(options.Groups) |->
              Planned("add-to-group",
                      BusyBoxNewAddUserToGroupCmd(name, options.Groups[i]).cmd,
                      DefaultRunOptions(env), ctx)]
        \o (IF options.UserGroup
            THEN <<Planned("add-to-group", BusyBoxNewAddUserToGroupCmd(name, name).cmd,
                           DefaultRunOptions(env), ctx)>>
            ELSE <<>>)

\* BusyBoxUserFrontend.CreateUser: create the user, add it to its own group,
\* add it to each supplementary group; add-to-group runs with default options
BusyBoxUserFrontendCreateUser(env, name, options) ==
    LET d == BusyBoxNewCreateUserCmd(name, options)
        ctx == "adding user to group using BusyBox"
    IN  <<Planned("create-user", d.cmd,
                  WithCapabilities(DefaultRunOptions(env), d.capabilities),
                  "creating user using BusyBox")>>
        \o (IF options.UserGroup
            THEN <<Planned("add-to-group", BusyBoxNewAddUserToGroupCmd(name, name).cmd,
                           DefaultRunOptions(env), ctx)>>
            ELSE <<>>)
        \o [i \in 1..Len(options.Groups) |->
              Planned("add-to-group",
                      BusyBoxNewAddUserToGroupCmd(name, options.Groups[i]).cmd,
                      DefaultRunOptions(env), ctx)]

\* Container.ResolveExecutable: `command -v executable` with default options
ResolveExecutable(step, env, executable, found) ==
    Run(step, "resolve", <<"command", "-v", executable>>, DefaultRunOptions(env), found)

\* capabilities that are augmented whether or not sss_cache is resolvable
MutShadowCreateUserCapabilities(capabilities, sssFound) ==
    capabilities \o <<"CAP_SETGID", "CAP_SETUID">>

\* the capabilities ShadowUserFrontend.CreateUser passes to useradd: the
\* factory's, and CAP_SETGID and CAP_SETUID when sss_cache is resolvable
ShadowCreateUserCapabilities(capabilities, sssFound) ==
    IF sssFound THEN capabilities \o <<"CAP_SETGID", "CAP_SETUID">>
    ELSE capabilities

\* a frontend that runs the add-to-group command of shadow-utils all the same
MutShadowUserFrontendAddsToGroup(env, name, options, sssFound) ==
    LET d == ShadowNewCreateUserCmd(name, options)
    IN  <<Planned("create-user", d.cmd,
                  WithCapabilities(DefaultRunOptions(env),
                                   ShadowCreateUserCapabilities(d.capabilities, sssFound)),
                  "creating user using shadow-utils")>>
        \o (IF options.UserGroup
            THEN <<Planned("add-to-group", ShadowNewAddUserToGroupCmd(name, name).cmd,
                           DefaultRunOptions(env),
                           "adding user to group using shadow-utils")>>
            ELSE <<>>)

\* ShadowUserFrontend.CreateUser: probe for sss_cache, then run useradd
ShadowUserFrontendCreateUser(env, name, options, sssFound) ==
    LET d == ShadowNewCreateUserCmd(name, options)
    IN  <<Planned("create-user", d.cmd,
                  WithCapabilities(DefaultRunOptions(env),
                                   ShadowCreateUserCapabilities(d.capabilities, sssFound)),
                  "creating user using shadow-utils")>>

\* ------------------------------------------------------------------------
\* Special-file sweep: parsing the output of find
\* ------------------------------------------------------------------------

\* The captured output is a sequence of tokens: a path, or one of the
\* white-space strings below.
LF == "\n"

CRLF == "\r\n"

WhiteSpace == {LF, CRLF, " "}

\* strings.TrimSpace
RECURSIVE TrimLeft(_)
TrimLeft(t) ==
    IF Len(t) > 0 /\ t[1] \in WhiteSpace THEN TrimLeft(Tail(t)) ELSE t

RECURSIVE TrimRight(_)
TrimRight(t) ==
    IF Len(t) > 0 /\ t[Len(t)] \in WhiteSpace THEN TrimRight(Prefix(t, Len(t) - 1)) ELSE t

TrimSpace(t) == TrimRight(TrimLeft(t))

\* strings.ReplaceAll(t, "\r\n", "\n")
ReplaceAll(t) == [i \in 1..Len(t) |-> IF t[i] = CRLF THEN LF ELSE t[i]]

\* the string made of the tokens of t
RECURSIVE Concat(_)
Concat(t) == IF Len(t) = 0 THEN "" ELSE t[1] \o Concat(Tail(t))

\* strings.Split(t, "\n"): always at least one element
RECURSIVE Split(_)
Split(t) ==
    IF \E i \in 1..Len(t) : t[i] = LF
    THEN LET i == CHOOSE k \in 1..Len(t) :
                    t[k] = LF /\ \A j \in 1..(k - 1) : t[j] # LF
         IN  <<Concat(Prefix(t, i - 1))>> \o Split(SubSeq(t, i + 1, Len(t)))
    ELSE <<Concat(t)>>

\* unsetSpecialBits: the targets parsed from the output of find
ParseTargets(outText) ==
    IF Len(outText) > 0 THEN Split(ReplaceAll(TrimSpace(outText))) ELSE <<>>

\* unsetSpecialBits: the targets that are not excluded, in order
RECURSIVE Filter(_, _)
Filter(targets, excludes) ==
    IF Len(targets) = 0 THEN <<>>
    ELSE (IF targets[1] \in Range(excludes) THEN <<>> ELSE <<targets[1]>>)
         \o Filter(Tail(targets), excludes)

\* a sweep that forgets the excluded paths
MutFilterTargets(targets, excludes) == targets

FilterTargets(targets, excludes) ==
    IF Len(excludes) > 0 THEN Filter(targets, excludes) ELSE targets

\* unsetSpecialBits: the find invocation
PlanFind(b, env, outText) ==
    LET d == NewFindSpecialCmd(b)
    IN  PlannedOut("find", d.cmd,
                   WithCapabilities(DefaultRunOptions(env), d.capabilities),
                   "searching for special files", outText)

\* unsetSpecialBits: the chmod invocation on the remaining targets
PlanChmod(env, targets) ==
    Planned("chmod", <<"chmod", "-s">> \o targets,
            WithCapabilities(DefaultRunOptions(env),
                             <<"CAP_DAC_READ_SEARCH", "CAP_FOWNER">>),
            "unsetting special bit")

\* unsetSpecialBits: find, and chmod when a target remains
UnsetSpecialBitsPlan(b, env, excludes, outText) ==
    LET targets == FilterTargets(ParseTargets(outText), excludes)
    IN  <<PlanFind(b, env, outText)>>
        \o (IF Len(targets) > 0 THEN <<PlanChmod(env, targets)>> ELSE <<>>)

\* ------------------------------------------------------------------------
\* Texts: characters, names, keys and paths
\* ------------------------------------------------------------------------

UpperCase ==
    <<"A", "B", "C", "D", "E", "F", "G", "H", "I", "J", "K", "L", "M",
      "N", "O", "P", "Q", "R", "S", "T", "U", "V", "W", "X", "Y", "Z">>

LowerCase ==
    <<"a", "b", "c", "d", "e", "f", "g", "h", "i", "j", "k", "l", "m",
      "n", "o", "p", "q", "r", "s", "t", "u", "v", "w", "x", "y", "z">>

Digits == {"0", "1", "2", "3", "4", "5", "6", "7", "8", "9"}

Alnum == Range(UpperCase) \cup Range(LowerCase) \cup Digits

\* the digest a base image is pinned by
BaseDigest == "sha256:e3b0c44298fc1c149afbf4c8996fb92427ae41e4649b934ca495991b7852b855"

\* a comment of 256 characters
LongComment ==
    "xxxxxxxxxxxxxxxxxxxxxxxxxxxxxxxxxxxxxxxxxxxxxxxxxxxxxxxxxxxxxxxxxxxxxxxxxxxxxxxxxxxxxxxxxxxxxxxxxxxxxxxxxxxxxxxxxxxxxxxxxxxxxxxxxxxxxxxxxxxxxxxxxxxxxxxxxxxxxxxxxxxxxxxxxxxxxxxxxxxxxxxxxxxxxxxxxxxxxxxxxxxxxxxxxxxxxxxxxxxxxxxxxxxxxxxxxxxxxxxxxxxxxxxxxxxxxxxx"

\* The characters of the names, keys and comments the specs are made of:
\* the characters of a string are not accessible otherwise.
Chars(s) ==
    CASE s = "git" -> <<"g", "i", "t">>
      [] s = "curl" -> <<"c", "u", "r", "l">>
      [] s = "vim" -> <<"v", "i", "m">>
      [] s = "Git" -> <<"G", "i", "t">>
      [] s = "lib_x" -> <<"l", "i", "b", "_", "x">>
      [] s = "g" -> <<"g">>
      [] s = "dev" -> <<"d", "e", "v">>
      [] s = "root" -> <<"r", "o", "o", "t">>
      [] s = "aaaaaaaaaaaaaaaaaaaaaaaaaaaaaaaaa" -> [i \in 1..33 |-> "a"]
      [] s = "de v" -> <<"d", "e", " ", "v">>
      [] s = "1000" -> <<"1", "0", "0", "0">>
      [] s = "dev-" -> <<"d", "e", "v", "-">>
      [] s = "wheel" -> <<"w", "h", "e", "e", "l">>
      [] s = "video" -> <<"v", "i", "d", "e", "o">>
      [] s = "audio" -> <<"a", "u", "d", "i", "o">>
      [] s = "input" -> <<"i", "n", "p", "u", "t">>
      [] s = "0" -> <<"0">>
      [] s = "example/img" -> <<"e", "x", "a", "m", "p", "l", "e", "/", "i", "m", "g">>
      [] s = "Example/Img" -> <<"E", "x", "a", "m", "p", "l", "e", "/", "I", "m", "g">>
      [] s = "v1" -> <<"v", "1">>
      [] s = "latest" -> <<"l", "a", "t", "e", "s", "t">>
      [] s = "v 1" -> <<"v", " ", "1">>
      [] s = "docker.io/library/base" -> <<"d", "o", "c", "k", "e", "r", ".", "i", "o", "/", "l", "i", "b", "r", "a", "r", "y", "/", "b", "a", "s", "e">>
      [] s = "Docker.io/Base" -> <<"D", "o", "c", "k", "e", "r", ".", "i", "o", "/", "B", "a", "s", "e">>
      [] s = "org.opencontainers.image" -> <<"o", "r", "g", ".", "o", "p", "e", "n", "c", "o", "n", "t", "a", "i", "n", "e", "r", "s", ".", "i", "m", "a", "g", "e">>
      [] s = ".base" -> <<".", "b", "a", "s", "e">>
      [] s = ".name" -> <<".", "n", "a", "m", "e">>
      [] s = ".digest" -> <<".", "d", "i", "g", "e", "s", "t">>
      [] s = ".title" -> <<".", "t", "i", "t", "l", "e">>
      [] s = "maintainer" -> <<"m", "a", "i", "n", "t", "a", "i", "n", "e", "r">>
      [] s = "bad_key" -> <<"b", "a", "d", "_", "k", "e", "y">>
      [] s = "org.example" -> <<"o", "r", "g", ".", "e", "x", "a", "m", "p", "l", "e">>
      [] s = ".team" -> <<".", "t", "e", "a", "m">>
      [] s = "team." -> <<"t", "e", "a", "m", ".">>
      [] s = "Developer" -> <<"D", "e", "v", "e", "l", "o", "p", "e", "r">>
      [] s = "localhost:5000/base" ->
           <<"l", "o", "c", "a", "l", "h", "o", "s", "t", ":", "5", "0", "0", "0", "/", "b", "a", "s", "e">>
      [] s = "sha256:0a1b" ->
           <<"s", "h", "a", "2", "5", "6", ":", "0", "a", "1", "b">>
      [] s = "MD5:d41d8cd98f00b204e9800998ecf8427e" ->
           <<"M", "D", "5", ":", "d", "4", "1", "d", "8", "c", "d", "9", "8", "f", "0", "0", "b", "2", "0", "4", "e", "9", "8", "0", "0", "9", "9", "8", "e", "c", "f", "8", "4", "2", "7", "e">>
      [] s = "SHA256:e3b0c44298fc1c149afbf4c8996fb92427ae41e4649b934ca495991b7852b855" ->
           <<"S", "H", "A", "2", "5", "6", ":", "e", "3", "b", "0", "c", "4", "4", "2", "9", "8", "f", "c", "1", "c", "1", "4", "9", "a", "f", "b", "f", "4", "c", "8", "9", "9", "6", "f", "b", "9", "2", "4", "2", "7", "a", "e", "4", "1", "e", "4", "6", "4", "9", "b", "9", "3", "4", "c", "a", "4", "9", "5", "9", "9", "1", "b", "7", "8", "5", "2", "b", "8", "5", "5">>
      [] s = "sha256:E3B0C44298FC1C149AFBF4C8996FB92427AE41E4649B934CA495991B7852B855" ->
           <<"s", "h", "a", "2", "5", "6", ":", "E", "3", "B", "0", "C", "4", "4", "2", "9", "8", "F", "C", "1", "C", "1", "4", "9", "A", "F", "B", "F", "4", "C", "8", "9", "9", "6", "F", "B", "9", "2", "4", "2", "7", "A", "E", "4", "1", "E", "4", "6", "4", "9", "B", "9", "3", "4", "C", "A", "4", "9", "5", "9", "9", "1", "B", "7", "8", "5", "2", "B", "8", "5", "5">>
      [] s = "sha512:e3b0c44298fc1c149afbf4c8996fb92427ae41e4649b934ca495991b7852b855" ->
           <<"s", "h", "a", "5", "1", "2", ":", "e", "3", "b", "0", "c", "4", "4", "2", "9", "8", "f", "c", "1", "c", "1", "4", "9", "a", "f", "b", "f", "4", "c", "8", "9", "9", "6", "f", "b", "9", "2", "4", "2", "7", "a", "e", "4", "1", "e", "4", "6", "4", "9", "b", "9", "3", "4", "c", "a", "4", "9", "5", "9", "9", "1", "b", "7", "8", "5", "2", "b", "8", "5", "5">>
      [] s = "sha256+b64:e3b0c44298fc1c149afbf4c8996fb92427ae41e4649b934ca495991b7852b855" ->
           <<"s", "h", "a", "2", "5", "6", "+", "b", "6", "4", ":", "e", "3", "b", "0", "c", "4", "4", "2", "9", "8", "f", "c", "1", "c", "1", "4", "9", "a", "f", "b", "f", "4", "c", "8", "9", "9", "6", "f", "b", "9", "2", "4", "2", "7", "a", "e", "4", "1", "e", "4", "6", "4", "9", "b", "9", "3", "4", "c", "a", "4", "9", "5", "9", "9", "1", "b", "7", "8", "5", "2", "b", "8", "5", "5">>
      [] s = "image-A" ->
           <<"i", "m", "a", "g", "e", "-", "A">>
      [] s = "image-B" ->
           <<"i", "m", "a", "g", "e", "-", "B">>
      [] s = "image-old" ->
           <<"i", "m", "a", "g", "e", "-", "o", "l", "d">>
      [] s = "[::1]:5000/img" ->
           <<"[", ":", ":", "1", "]", ":", "5", "0", "0", "0", "/", "i", "m", "g">>
      [] s = "example/img@sha256:e3b0c44298fc1c149afbf4c8996fb92427ae41e4649b934ca495991b7852b855" ->
           <<"e", "x", "a", "m", "p", "l", "e", "/", "i", "m", "g", "@", "s", "h", "a", "2", "5", "6", ":", "e", "3", "b", "0", "c", "4", "4", "2", "9", "8", "f", "c", "1", "c", "1", "4", "9", "a", "f", "b", "f", "4", "c", "8", "9", "9", "6", "f", "b", "9", "2", "4", "2", "7", "a", "e", "4", "1", "e", "4", "6", "4", "9", "b", "9", "3", "4", "c", "a", "4", "9", "5", "9", "9", "1", "b", "7", "8", "5", "2", "b", "8", "5", "5">>
      [] s = "Example/img" ->
           <<"E", "x", "a", "m", "p", "l", "e", "/", "i", "m", "g">>
      [] s = "index.docker.io/img" ->
           <<"i", "n", "d", "e", "x", ".", "d", "o", "c", "k", "e", "r", ".", "i", "o", "/", "i", "m", "g">>
      [] s = "img" ->
           <<"i", "m", "g">>
      [] s = "md5:d41d8cd98f00b204e9800998ecf8427e" ->
           <<"m", "d", "5", ":", "d", "4", "1", "d", "8", "c", "d", "9", "8", "f", "0", "0", "b", "2", "0", "4", "e", "9", "8", "0", "0", "9", "9", "8", "e", "c", "f", "8", "4", "2", "7", "e">>
      [] s = BaseDigest ->
           <<"s", "h", "a", "2", "5", "6", ":", "e", "3", "b", "0", "c", "4", "4", "2", "9", "8", "f", "c", "1", "c", "1", "4", "9", "a", "f", "b", "f", "4", "c", "8", "9", "9", "6", "f", "b", "9", "2", "4", "2", "7", "a", "e", "4", "1", "e", "4", "6", "4", "9", "b", "9", "3", "4", "c", "a", "4", "9", "5", "9", "9", "1", "b", "7", "8", "5", "2", "b", "8", "5", "5">>
      [] s = "" -> <<>>
      [] s = LongComment -> [i \in 1..256 |-> "x"]

\* strings.Cut(l, sep): the text before and after the first sep
Cut(l, sep) ==
    IF \E i \in 1..Len(l) : l[i] = sep
    THEN LET i == CHOOSE k \in 1..Len(l) : l[k] = sep /\ \A j \in 1..(k - 1) : l[j] # sep
         IN  [before |-> SubSeq(l, 1, i - 1), after |-> SubSeq(l, i + 1, Len(l)),
              found |-> TRUE]
    ELSE [before |-> l, after |-> <<>>, found |-> FALSE]

\* strings.LastIndex(t, sep), counted in tokens from 0; -1 when sep is absent
LastIndex(t, sep) ==
    IF \E i \in 1..Len(t) : t[i] = sep
    THEN (CHOOSE k \in 1..Len(t) : t[k] = sep /\ \A j \in (k + 1)..Len(t) : t[j] # sep) - 1
    ELSE -1

\* strings.Split(l, sep): the texts between the separators, at least one
RECURSIVE SplitBy(_, _)
SplitBy(l, sep) ==
    LET c == Cut(l, sep)
    IN  IF c.found THEN <<c.before>> \o SplitBy(c.after, sep) ELSE <<l>>

\* strings.Fields(l): the texts between runs of white space, none empty
Fields(l) == SelectSeq(SplitBy(l, " "), LAMBDA f : f # <<>>)

\* a conversion that leaves the text as it is
MutToLower(s) == s

\* strings.ToLower, on a text given as its sequence of characters
ToLower(s) ==
    [i \in 1..Len(s) |->
        IF \E k \in 1..26 : UpperCase[k] = s[i]
        THEN LowerCase[CHOOSE k \in 1..26 : UpperCase[k] = s[i]]
        ELSE s[i]]

\* strings.HasPrefix(s, prefix)
HasPrefix(s, prefix) ==
    Len(prefix) <= Len(s) /\ SubSeq(s, 1, Len(prefix)) = prefix

\* A path is the sequence of its tokens: "/", "~", ".", ".." and names.

\* filepath.IsAbs
IsAbs(path) == Len(path) > 0 /\ path[1] = "/"

\* the elements of a path that filepath.Clean looks at: neither empty nor "."
Elements(path) ==
    SelectSeq(SplitBy(path, "/"), LAMBDA e : e # <<>> /\ e # <<".">>)

\* filepath.Clean: ".." removes the element before it; at the root it is
\* dropped, at the start of a relative path it stays
RECURSIVE Resolve(_, _, _)
Resolve(elements, rooted, acc) ==
    IF elements = <<>> THEN acc
    ELSE IF Head(elements) # <<"..">>
    THEN Resolve(Tail(elements), rooted, Append(acc, Head(elements)))
    ELSE IF acc # <<>> /\ acc[Len(acc)] # <<"..">>
    THEN Resolve(Tail(elements), rooted, SubSeq(acc, 1, Len(acc) - 1))
    ELSE IF rooted THEN Resolve(Tail(elements), rooted, acc)
    ELSE Resolve(Tail(elements), rooted, Append(acc, <<"..">>))

RECURSIVE JoinElements(_)
JoinElements(elements) ==
    IF Len(elements) = 0 THEN <<>>
    ELSE IF Len(elements) = 1 THEN elements[1]
    ELSE elements[1] \o <<"/">> \o JoinElements(Tail(elements))

\* filepath.Clean
Clean(path) ==
    LET kept == Resolve(Elements(path), IsAbs(path), <<>>)
    IN  IF kept = <<>> THEN (IF IsAbs(path) THEN <<"/">> ELSE <<".">>)
        ELSE (IF IsAbs(path) THEN <<"/">> ELSE <<>>) \o JoinElements(kept)

\* filepath.Join of two paths
Join(a, b) ==
    IF a = <<>> /\ b = <<>> THEN <<>>
    ELSE IF a = <<>> THEN Clean(b)
    ELSE IF b = <<>> THEN Clean(a)
    ELSE Clean(a \o <<"/">> \o b)

\* filepath.Dir: the path without its last element
Dir(path) == Clean(SubSeq(path, 1, LastIndex(path, "/") + 1))

\* filepath.IsLocal: a relative path that stays below where it starts
IsLocal(path) ==
    /\ path # <<>>
    /\ ~IsAbs(path)
    /\ LET kept == Resolve(Elements(path), FALSE, <<>>)
       IN  kept = <<>> \/ kept[1] # <<"..">>

\* the characters of a key given as the pieces of text it is made of
RECURSIVE KeyChars(_)
KeyChars(k) == IF Len(k) = 0 THEN <<>> ELSE Chars(k[1]) \o KeyChars(Tail(k))

\* ------------------------------------------------------------------------
\* Specs and options: the inputs of Execute
\* ------------------------------------------------------------------------

\* the concurrent invocations of Execute sharing one store
Procs == {"A", "B"}

PackageNames == <<"git", "curl", "vim">>

GroupNames == <<"wheel", "video", "audio", "input">>

\* a copy rule: the context directory, the destination in the container,
\* the sources and the owner of the copies
Rule(base, destination, sources, owner) ==
    [Base |-> base, Destination |-> destination, Sources |-> sources, Owner |-> owner]

\* copy rules whose base is left out, under the home directory, relative to
\* the directory of the spec file, and absolute
Rules ==
    <<Rule(<<>>, <<"/", "opt", "/", "app">>, <<<<"bin">>>>, "dev"),
      Rule(<<"~", "/", "ctx">>, <<"/", "etc", "/", "app">>, <<<<"app.conf">>>>, "dev"),
      Rule(<<"ctx">>, <<"/", "opt", "/", ".", "/", "lib">>,
           <<<<"lib", "/", ".", "/", "a.so">>>>, "dev"),
      Rule(<<"/", "srv", "/", "..", "/", "srv", "/", "ctx">>, <<"/", "srv">>,
           <<<<"data">>>>, "dev")>>

\* the lists of at most n elements that are prefixes of s
Prefixes(s, n) == {Prefix(s, k) : k \in 0..(IF n < Len(s) THEN n ELSE Len(s))}

NoImage == "none"

\* a spec filled with the defaults of distro d, with every optional step off
BaseCfg(d) ==
    [distro |-> d,
     package |-> DefaultPackageBackend(d),
     userBackend |-> DefaultUserBackend(d),
     find |-> DefaultFindBackend(d),
     path |-> <<"/", "specs", "/", "turret.toml">>,
     repository |-> "example/img", tag |-> "v1",
     from |-> [Repository |-> "docker.io/library/base", Tag |-> "latest", Digest |-> ""],
     upgrade |-> FALSE, install |-> <<>>, clean |-> FALSE,
     user |-> <<>>, copy |-> <<>>,
     removeS |-> FALSE, excludes |-> <<>>,
     force |-> FALSE, keep |-> FALSE, loginShell |-> "",
     keepHistory |-> FALSE, latest |-> FALSE,
     clearAnnotations |-> FALSE, annotations |-> <<>>, digest |-> "",
     baseAnnotations |-> <<>>,
     labels |-> <<>>, ports |-> <<>>, workDir |-> <<>>,
     installed |-> <<>>]

NewUser(id, userGroup, groups, comment, createHome) ==
    [Name |-> "dev", ID |-> id, UserGroup |-> userGroup, Groups |-> groups,
     Comment |-> comment, CreateHome |-> createHome]

\* every combination of enabled and disabled steps, on every distro; the
\* working container is kept or not on one of them
ShapeCfgs ==
    LET shapes ==
          {[BaseCfg(d) EXCEPT !.upgrade = up, !.install = inst, !.clean = cl,
                              !.user = u, !.copy = cp, !.removeS = rs,
                              !.excludes = <<"/bin/su">>, !.keep = k] :
              d \in Distros, up \in BOOLEAN, inst \in Prefixes(PackageNames, MaxPkgs),
              cl \in BOOLEAN,
              u \in {<<>>, <<NewUser(0, TRUE, <<"wheel">>, <<>>, TRUE)>>},
              cp \in Prefixes(Rules, MaxCopy), rs \in BOOLEAN, k \in BOOLEAN}
    IN  {c \in shapes : c.keep => c.distro = "Fedora"}

\* every shape of user, on every distro
UserCfgs ==
    {[BaseCfg(d) EXCEPT !.user = <<NewUser(id, ug, gs, cm, ch)>>] :
        d \in Distros, id \in {0, 1000}, ug \in BOOLEAN,
        gs \in Prefixes(GroupNames, MaxGroups), cm \in {<<>>, <<"Developer">>},
        ch \in BOOLEAN}

\* the sweep with and without excluded paths, on every distro
SweepCfgs ==
    {[BaseCfg(d) EXCEPT !.removeS = TRUE, !.excludes = ex] :
        d \in Distros, ex \in {<<>>, <<"/bin/su">>, <<"/bin/su", "/usr/bin/passwd">>}}

\* overwriting and keeping, with and without the history and the latest
\* tag, on a spec of one step
StoreCfgs ==
    {[BaseCfg("Fedora") EXCEPT !.clean = TRUE, !.force = f, !.keep = k,
                               !.keepHistory = kh, !.latest = l] :
        f \in BOOLEAN, k \in BOOLEAN, kh \in BOOLEAN, l \in BOOLEAN}

\* the Fedora scenario: one package, the user dev with a group of its own
ScenarioCfgs ==
    {[BaseCfg("Fedora") EXCEPT !.install = <<"git">>,
                               !.user = <<NewUser(0, TRUE, <<>>, <<>>, FALSE)>>]}

\* An annotation key is the sequence of the pieces of text it is made of;
\* annotations are a function from keys to values.
OCIBase == <<"org.opencontainers.image", ".base">>

\* the annotations of the base image: its name and digest, its title, a key
\* that goes on after the letters of the base prefix, and a key the base
\* prefix begins with
BaseAnnotations ==
    (OCIBase \o <<".name">>) :> "docker.io/library/base:latest"
    @@ (OCIBase \o <<".digest">>) :> "sha256:0a1b"
    @@ <<"org.opencontainers.image", ".title">> :> "base"
    @@ <<"org.opencontainers.image">> :> "kept"
    @@ <<"maintainer">> :> "someone"

\* specs that set annotations, with and without clearing the inherited ones
\* and with and without the digest of the spec file
AnnotationCfgs ==
    {[BaseCfg("Fedora") EXCEPT !.clearAnnotations = cl, !.annotations = an,
                               !.digest = dg, !.baseAnnotations = BaseAnnotations] :
        cl \in BOOLEAN, dg \in {"", "sha256:5bec"},
        an \in {<<>>, <<"maintainer">> :> "dev",
                <<"org.opencontainers.image", ".title">> :> "mine"}}

\* the files with a special bit that live under /home
HomePaths == {"/home/dev/.local/bin/helper"}

\* specs as decoded from a file: backends left out or overridden, the distro
\* possibly missing
RawCfgs ==
    {[BaseCfg("Fedora") EXCEPT !.distro = d, !.package = pk, !.userBackend = ub,
                               !.find = fb, !.clean = TRUE] :
        d \in {Unknown, "Fedora"}, pk \in {Unknown, "APT"},
        ub \in {Unknown, "BusyBox"}, fb \in {Unknown, "BSD"}}

\* spec files whose user table sets login-shell, the key of the README and
\* of the annotated example spec
ShellCfgs ==
    {[BaseCfg(d) EXCEPT !.user = <<NewUser(0, TRUE, <<>>, <<>>, TRUE)>>,
                        !.loginShell = "fish"] : d \in {"Alpine", "Fedora"}}

\* createSpec: decoding with DisallowUnknownFields; spec.User has no field
\* for the key login-shell, so a file that sets it is not decoded
Decode(c) ==
    IF c.loginShell # ""
    THEN <<"strict mode: fields in the document are missing in the target struct">>
    ELSE <<>>

\* the port of a configuration
Port(number, protocol) == [Number |-> number, Protocol |-> protocol]

\* a spec that sets every optional table to something valid
FullCfgs ==
    {[BaseCfg("Fedora") EXCEPT
        !.install = <<"git">>,
        !.user = <<NewUser(1000, TRUE, <<"wheel">>, <<"Developer">>, TRUE)>>,
        !.copy = SubSeq(Rules, 1, 2),
        !.annotations = (<<"org.opencontainers.image", ".title">> :> "mine"),
        !.labels = (<<"org.example", ".team">> :> "build"),
        !.ports = <<Port(8080, Unknown), Port(53, "UDP")>>,
        !.workDir = <<"/", "srv">>]}

\* specs at the edges of the validation: most break one of its rules, some
\* are just inside a limit; and a spec file given by a relative path
EdgeCfgs ==
    LET b == BaseCfg("Fedora")
        u == NewUser(0, TRUE, <<>>, <<>>, FALSE)
        r == Rules[4]
    IN  {[b EXCEPT !.path = <<"turret.toml">>],
         [b EXCEPT !.repository = ""],
         [b EXCEPT !.repository = "Example/Img"],
         [b EXCEPT !.repository = "dev-"],
         [b EXCEPT !.repository = ".base"],
         [b EXCEPT !.repository = "team."],
         [b EXCEPT !.repository = LongComment],
         [b EXCEPT !.from.Repository = "dev-"],
         [b EXCEPT !.from.Repository = "localhost:5000/base"],
         [b EXCEPT !.from.Digest = BaseDigest],
         [b EXCEPT !.from.Digest = "sha256:0a1b"],
         [b EXCEPT !.from.Digest = "md5:d41d8cd98f00b204e9800998ecf8427e"],
         [b EXCEPT !.from.Digest = "MD5:d41d8cd98f00b204e9800998ecf8427e"],
         [b EXCEPT !.from.Digest =
             "sha256:E3B0C44298FC1C149AFBF4C8996FB92427AE41E4649B934CA495991B7852B855"],
         [b EXCEPT !.from.Digest =
             "sha512:e3b0c44298fc1c149afbf4c8996fb92427ae41e4649b934ca495991b7852b855"],
         [b EXCEPT !.tag = "v 1"],
         [b EXCEPT !.tag = ""],
         [b EXCEPT !.tag = "", !.force = TRUE, !.clean = TRUE],
         [b EXCEPT !.from.Repository = ""],
         [b EXCEPT !.from.Tag = ""],
         [b EXCEPT !.from.Tag = "", !.from.Digest = BaseDigest],
         [b EXCEPT !.from.Repository = "Docker.io/Base"]}
        \cup {[BaseCfg(d) EXCEPT !.install = <<"git", n>>] :
                 d \in {"Alpine", "Debian", "Fedora"}, n \in {"Git", "lib_x", "g"}}
        \cup {[b EXCEPT !.user = <<[u EXCEPT !.Name = n]>>] :
                 n \in {"", "root", "de v", "1000", "dev-", Concat([i \in 1..33 |-> "a"])}}
        \cup {[b EXCEPT !.user = <<[u EXCEPT !.ID = id]>>] :
                 id \in {500, 999, 1000, 60000, 60001}}
        \cup {[b EXCEPT !.user = <<[u EXCEPT !.Groups = <<"wheel", "0">>]>>],
              [b EXCEPT !.user = <<[u EXCEPT !.Comment = <<LongComment>>]>>]}
        \cup {[b EXCEPT !.copy = <<x>>] :
                 x \in {[r EXCEPT !.Base = <<"~", "builder">>],
                        [r EXCEPT !.Base = <<"..", "/", "ctx">>],
                        [r EXCEPT !.Base = <<"~">>],
                        [r EXCEPT !.Destination = <<>>],
                        [r EXCEPT !.Destination = <<"opt">>],
                        [r EXCEPT !.Sources = <<>>],
                        [r EXCEPT !.Sources = <<<<"data">>, <<>>>>],
                        [r EXCEPT !.Sources = <<<<"https", ":", "/", "/", "example.org">>>>],
                        [r EXCEPT !.Owner = ""],
                        [r EXCEPT !.Owner = "root"]}}
        \cup {[b EXCEPT !.annotations = (<<"bad_key">> :> "x")],
              [b EXCEPT !.labels = (<<"team.">> :> "x")],
              [b EXCEPT !.ports = <<Port(0, "TCP")>>],
              [b EXCEPT !.workDir = <<"srv">>]}

\* a validation that accepts every spec
MutValidate(c) == <<>>

maxCommentLength == 255

maxNameLength == 32

maxUID == 60000

minUID == 1000

\* The grammar of reference.Parse, on the characters of a reference:
\*   reference      := name [ ":" tag ] [ "@" digest ]
\*   name           := [ domain "/" ] path-component { "/" path-component }
\*   domain         := host [ ":" port ]
\*   path-component := alpha-numeric { separator alpha-numeric }

\* path-component: runs of lower-case letters and digits, separated by ".",
\* "_", "__" or any number of hyphens
IsPathComponent(c) ==
    LET alnum == Range(LowerCase) \cup Digits
        seps == {".", "_", "-"}
        runEnd(i) == CHOOSE j \in i..Len(c) :
                        /\ \A k \in i..j : c[k] \in seps
                        /\ j = Len(c) \/ c[j + 1] \notin seps
        separator(i, j) ==
            \/ \A k \in i..j : c[k] = "-"
            \/ j = i /\ c[i] \in {".", "_"}
            \/ j = i + 1 /\ c[i] = "_" /\ c[j] = "_"
    IN  /\ c # <<>>
        /\ \A i \in 1..Len(c) : c[i] \in alnum \cup seps
        /\ c[1] \in alnum /\ c[Len(c)] \in alnum
        /\ \A i \in 2..Len(c) :
              (c[i] \in seps /\ c[i - 1] \notin seps) => separator(i, runEnd(i))

\* domain: a host, and a port number after ":" when there is one; a host is
\* an IPv6 address in brackets, or components of letters, digits and inner
\* hyphens separated by "."
IsDomain(c) ==
    LET component(d) ==
            /\ d # <<>>
            /\ \A i \in 1..Len(d) : d[i] \in Alnum \cup {"-"}
            /\ d[1] \in Alnum /\ d[Len(d)] \in Alnum
        hex == Digits \cup {"a", "b", "c", "d", "e", "f", "A", "B", "C", "D", "E", "F"}
        host(h) ==
            IF h # <<>> /\ h[1] = "["
            THEN /\ Len(h) >= 3 /\ h[Len(h)] = "]"
                 /\ \A i \in 2..(Len(h) - 1) : h[i] \in hex \cup {":"}
            ELSE \A i \in 1..Len(SplitBy(h, ".")) : component(SplitBy(h, ".")[i])
        k == LastIndex(c, ":")
        port == SubSeq(c, k + 2, Len(c))
    IN  \/ host(c)
        \/ /\ k >= 0 /\ host(SubSeq(c, 1, k))
           /\ port # <<>> /\ \A i \in 1..Len(port) : port[i] \in Digits

\* name: path components separated by "/", after a domain and "/" or not
IsName(c) ==
    LET path(q) == \A i \in 1..Len(SplitBy(q, "/")) : IsPathComponent(SplitBy(q, "/")[i])
        d == Cut(c, "/")
    IN  path(c) \/ (d.found /\ IsDomain(d.before) /\ path(d.after))

\* tag: at most 128 word characters, "." and "-", the first a word character
IsTag(t) ==
    /\ Len(t) \in 1..128
    /\ t[1] \in Alnum \cup {"_"}
    /\ \A i \in 1..Len(t) : t[i] \in Alnum \cup {"_", ".", "-"}

\* digest, as the grammar of references has it: an algorithm of components
\* that begin with a letter, ":", and 32 hexadecimal digits or more
IsDigest(d) ==
    LET c == Cut(d, ":")
        a == c.before
        letters == Range(UpperCase) \cup Range(LowerCase)
        hex == Digits \cup {"a", "b", "c", "d", "e", "f", "A", "B", "C", "D", "E", "F"}
    IN  /\ c.found /\ a # <<>>
        /\ \A i \in 1..Len(a) : a[i] \in Alnum \cup {"-", "_", "+", "."}
        /\ a[1] \in letters
        /\ \A i \in 1..Len(a) :
              a[i] \in {"-", "_", "+", "."} => (i < Len(a) /\ a[i + 1] \in letters)
        /\ Len(c.after) >= 32
        /\ \A i \in 1..Len(c.after) : c.after[i] \in hex

\* DigestRegexpAnchored: an algorithm of components of lower-case letters
\* and digits separated by one of ".", "+", "_" and "-", then ":" and an
\* encoded part of letters, digits, "=", "_" and "-"
DigestRegexpMatches(d) ==
    LET c == Cut(d, ":")
        a == c.before
        lower == Range(LowerCase) \cup Digits
        seps == {".", "+", "_", "-"}
    IN  /\ c.found /\ a # <<>> /\ c.after # <<>>
        /\ \A i \in 1..Len(a) : a[i] \in lower \cup seps
        /\ a[1] \in lower /\ a[Len(a)] \in lower
        /\ \A i \in 2..Len(a) : a[i] \in seps => a[i - 1] \in lower
        /\ \A i \in 1..Len(c.after) : c.after[i] \in Alnum \cup {"=", "_", "-"}

\* digest.Parse: the complaint about a digest (<<>>: none). Without an
\* algorithm or an encoded part the format is invalid; an algorithm that is
\* not available is unsupported when the digest has the format of one, and
\* the format is invalid otherwise; the checksum of an available algorithm
\* has the length of its hash in lower-case hexadecimal digits
DigestParse(d) ==
    LET c == Cut(d, ":")
        algorithm == Concat(c.before)
        size == CASE algorithm = "sha256" -> 64
                  [] algorithm = "sha384" -> 96
                  [] algorithm = "sha512" -> 128
                  [] OTHER -> 0
    IN  IF ~c.found \/ c.before = <<>> \/ c.after = <<>>
        THEN <<"invalid checksum digest format">>
        ELSE IF size = 0
        THEN IF DigestRegexpMatches(d) THEN <<"unsupported digest algorithm">>
             ELSE <<"invalid checksum digest format">>
        ELSE IF Len(c.after) # size THEN <<"invalid checksum digest length">>
        ELSE IF \E i \in 1..Len(c.after) :
                    c.after[i] \notin Digits \cup {"a", "b", "c", "d", "e", "f"}
        THEN <<"invalid checksum digest format">>
        ELSE <<>>

\* the name, the tag and the digest a reference is made of: the digest
\* follows "@", the tag the ":" that no "/" follows
ReferenceParts(c) ==
    LET at == Cut(c, "@")
        head == at.before
        k == LastIndex(head, ":")
        tagged == k > LastIndex(head, "/")
    IN  [name |-> IF tagged THEN SubSeq(head, 1, k) ELSE head,
         tagged |-> tagged,
         tag |-> IF tagged THEN SubSeq(head, k + 2, Len(head)) ELSE <<>>,
         pinned |-> at.found,
         digest |-> at.after]

\* ReferenceRegexp matches the whole of a reference
ReferenceMatches(c) ==
    LET r == ReferenceParts(c)
    IN  /\ IsName(r.name)
        /\ r.tagged => IsTag(r.tag)
        /\ r.pinned => IsDigest(r.digest)

\* the longest name of a reference
NameTotalLengthMax == 255

\* reference.Parse: the complaint about a reference (<<>>: none)
ReferenceParse(c) ==
    IF ~ReferenceMatches(c)
    THEN IF c = <<>> THEN <<"repository name must have at least one component">>
         ELSE IF ReferenceMatches(ToLower(c))
         THEN <<"repository name must be lowercase">>
         ELSE <<"invalid reference format">>
    ELSE IF Len(ReferenceParts(c).name) > NameTotalLengthMax
    THEN <<"repository name must not be more than 255 characters">>
    ELSE IF ReferenceParts(c).pinned
    THEN DigestParse(ReferenceParts(c).digest)
    ELSE <<>>

\* the characters of This.Reference() and of From.Reference(): the
\* repository, ":" and the tag when there is a tag, "@" and the digest when
\* there is a digest
ReferenceChars(repository, tag, digest) ==
    Chars(repository) \o (IF tag # "" THEN <<":">> \o Chars(tag) ELSE <<>>)
                      \o (IF digest # "" THEN <<"@">> \o Chars(digest) ELSE <<>>)

\* the registry a name without a domain belongs to, its older name, the
\* repository of its official images, and the host that is always a domain
defaultDomain == <<"d", "o", "c", "k", "e", "r", ".", "i", "o">>

legacyDefaultDomain ==
    <<"i", "n", "d", "e", "x", ".", "d", "o", "c", "k", "e", "r", ".", "i", "o">>

officialRepoName == <<"l", "i", "b", "r", "a", "r", "y">>

localhost == <<"l", "o", "c", "a", "l", "h", "o", "s", "t">>

\* splitDockerDomain: the text before the first "/" is the domain when it
\* has a "." or a ":" or is localhost; a name without a domain is of the
\* default registry, and of its official repository when it has no "/"
SplitDockerDomain(name) ==
    LET c == Cut(name, "/")
        plain == \/ ~c.found
                 \/ /\ \A i \in 1..Len(c.before) : c.before[i] \notin {".", ":"}
                    /\ c.before # localhost
        first == IF plain THEN defaultDomain ELSE c.before
        rest == IF plain THEN name ELSE c.after
        domain == IF first = legacyDefaultDomain THEN defaultDomain ELSE first
    IN  [domain |-> domain,
         remainder |-> IF domain = defaultDomain /\ "/" \notin Range(rest)
                       THEN officialRepoName \o <<"/">> \o rest ELSE rest]

\* an image ID in full: 64 lower-case hexadecimal digits
IsImageID(t) ==
    /\ Len(t) = 64
    /\ \A i \in 1..Len(t) : t[i] \in Digits \cup {"a", "b", "c", "d", "e", "f"}

\* reference.ParseNormalizedNamed: the complaint about a name that may lack
\* its domain (<<>>: none)
ParseNormalizedNamed(t) ==
    LET d == SplitDockerDomain(t)
        remoteName == Cut(d.remainder, ":").before
    IN  IF IsImageID(t)
        THEN <<"invalid repository name, cannot specify 64-byte hexadecimal strings",
               Concat(t)>>
        ELSE IF ToLower(remoteName) # remoteName
        THEN <<"invalid reference format: repository name must be lowercase">>
        ELSE ReferenceParse(d.domain \o <<"/">> \o d.remainder)

\* the shortest text that is looked up as the beginning of an image ID
minimumTruncatedIDLength == 3

\* store.Image on the beginning of an image ID: the images of ids it names
TruncatedIDs(ids, t) == {i \in ids : HasPrefix(Chars(i), t)}

\* is.Transport.ParseStoreReference, on the characters of a reference and
\* the image IDs of the store: the complaint about the reference (<<>>:
\* none).  A store specifier in brackets is dropped; what follows the last
\* "@" is peeled off as an image ID unless it is a digest; a text without
\* "@" and ":" may be the beginning of an image ID; what is left is a name
\* with a tag, a digest or both
ParseStoreReference(ids, ref) ==
    LET close == Cut(ref, "]")
        named == IF ref # <<>> /\ ref[1] = "[" THEN close.after ELSE ref
        split == LastIndex(named, "@")
        possibleID == SubSeq(named, split + 2, Len(named))
        peeled == split # -1 /\ DigestParse(possibleID) # <<>>
        known(t) == /\ Len(t) >= minimumTruncatedIDLength
                    /\ Cardinality(TruncatedIDs(ids, t)) = 1
        name == IF peeled THEN SubSeq(named, 1, split) ELSE named
        whole == /\ ~peeled
                 /\ \A i \in 1..Len(name) : name[i] \notin {"@", ":"}
                 /\ known(name)
    IN  IF ref = <<>> THEN <<"is an empty reference", "invalid reference">>
        ELSE IF ref[1] = "[" /\ ~close.found
        THEN <<"store specifier did not end", Concat(ref), "invalid reference">>
        ELSE IF split # -1 /\ possibleID = <<>>
        THEN <<"empty trailing digest or ID", Concat(named), "invalid reference">>
        ELSE IF peeled /\ ~IsImageID(possibleID) /\ ~known(possibleID)
        THEN <<"does not look like an image ID or digest", Concat(possibleID),
               "invalid reference">>
        ELSE IF whole THEN <<>>
        ELSE IF name = <<>>
        THEN IF peeled THEN <<>> ELSE <<"invalid reference">>
        ELSE IF ParseNormalizedNamed(name) # <<>>
        THEN <<"parsing named reference", Concat(name)>> \o ParseNormalizedNamed(name)
        ELSE <<>>

\* Backend.RePackageName: the characters a package name begins and ends
\* with, and those in between; <<>> for the empty expression
RePackageName(b) ==
    CASE b = "APT" ->
           <<[edge |-> Digits \cup Range(LowerCase),
              inner |-> Digits \cup Range(LowerCase) \cup {"+", "-", "."}]>>
      [] b \in {"APK", "Pacman"} ->
           <<[edge |-> Digits \cup Range(LowerCase),
              inner |-> Digits \cup Range(LowerCase) \cup {"+", "-", ".", "_"}]>>
      [] b \in {"DNF", "XBPS", "Zypper"} ->
           <<[edge |-> Alnum, inner |-> Alnum \cup {"+", "-", ".", "_"}]>>
      [] OTHER -> <<>>

\* re.MatchString(p) for the expression of a package manager
MatchesPackageName(re, p) ==
    LET c == Chars(p)
    IN  re = <<>>
        \/ /\ Len(c) >= 2
           /\ c[1] \in re[1].edge /\ c[Len(c)] \in re[1].edge
           /\ \A i \in 2..(Len(c) - 1) : c[i] \in re[1].inner

\* reReverseUnlimitedFQDN.MatchString on the characters of a key: r[i] says
\* that the repeated group can end after i characters
MatchesReverseFQDN(c) ==
    LET n == Len(c)
        label(i, j) ==
            /\ c[i] \in Alnum /\ c[j] \in Alnum
            /\ \A k \in i..j : c[k] \in Alnum \cup {"-"}
        r[i \in 0..n] ==
            \/ i = 0
            \/ i = 1 /\ c[1] = "."
            \/ i >= 1 /\ c[i] \in Alnum /\ r[i - 1]
            \/ i >= 3 /\ c[i] = "." /\ \E j \in 0..(i - 3) : label(j + 1, i - 1) /\ r[j]
    IN  n >= 1 /\ c[n] \in Alnum /\ r[n - 1]

\* reURLScheme.MatchString on the tokens of a source: characters other than
\* ":", "/", "?" and "#", then ":"
MatchesURLScheme(src) ==
    \E k \in 2..Len(src) :
        /\ src[k] = ":"
        /\ \A j \in 1..(k - 1) : src[j] \notin {":", "/", "?", "#"}

\* validateName: the complaint about a user or group name (<<>>: none)
validateName(name) ==
    LET c == Chars(name)
        special == {"-", ".", "_"}
    IN  IF name = "" THEN <<"blank name">>
        ELSE IF name = "root" THEN <<"the name \"root\" is reserved">>
        ELSE IF Len(c) > maxNameLength THEN <<"name is longer than 32 characters">>
        ELSE IF \E i \in 1..Len(c) : c[i] \notin Alnum \cup special
        THEN <<"name contains one or more characters not in the POSIX portable character set">>
        ELSE IF \A i \in 1..Len(c) : c[i] \in Digits
        THEN <<"name comprises only digits">>
        ELSE IF c[1] \in special \/ c[Len(c)] \in special
        THEN <<"name starts or ends with a special character">>
        ELSE <<>>

\* the complaint about the first element of a list that has one (<<>>: none)
FirstComplaint(list, complaint(_)) ==
    LET bad == {i \in 1..Len(list) : complaint(list[i]) # <<>>}
    IN  IF bad = {} THEN <<>>
        ELSE complaint(list[CHOOSE i \in bad : \A j \in bad : i <= j])

\* Validate, the checks of the user
ValidateUser(u) ==
    LET ofGroup(g) == IF validateName(g) # <<>>
                      THEN <<"invalid group name", g>> \o validateName(g) ELSE <<>>
    IN  IF validateName(u.Name) # <<>>
        THEN <<"invalid user name", u.Name>> \o validateName(u.Name)
        ELSE IF u.ID # 0 /\ (u.ID < minUID \/ u.ID > maxUID)
        THEN <<"UID " \o ToString(u.ID) \o " outside allowed range [1000-60000]">>
        ELSE IF FirstComplaint(u.Groups, ofGroup) # <<>>
        THEN FirstComplaint(u.Groups, ofGroup)
        ELSE IF u.Comment # <<>> /\ Len(Chars(u.Comment[1])) > maxCommentLength
        THEN <<"comment is longer than 255 characters">>
        ELSE <<>>

\* Validate, the checks of one copy rule
ValidateCopy(c) ==
    LET ofSource(src) ==
            IF src = <<>> THEN <<"empty source">>
            ELSE IF MatchesURLScheme(src) THEN <<"source has a scheme", Concat(src)>>
            ELSE <<>>
    IN  IF c.Base = <<>> THEN <<"missing base">>
        ELSE IF ~IsAbs(c.Base) THEN <<"base is not an absolute path", Concat(c.Base)>>
        ELSE IF c.Destination = <<>> THEN <<"missing destination">>
        ELSE IF ~IsAbs(c.Destination)
        THEN <<"destination is not an absolute path", Concat(c.Destination)>>
        ELSE IF Len(c.Sources) = 0 THEN <<"missing sources">>
        ELSE IF FirstComplaint(c.Sources, ofSource) # <<>>
        THEN FirstComplaint(c.Sources, ofSource)
        ELSE IF validateName(c.Owner) # <<>> THEN <<"invalid owner", c.Owner>>
        ELSE <<>>

\* the keys of a map that are not in reverse domain notation; the map is
\* ranged over in no particular order, and the complaint is about any of them
BadKeys(m) == {k \in DOMAIN m : ~MatchesReverseFQDN(KeyChars(k))}

\* spec.Validate: the first complaint about a spec (<<>>: none)
Validate(c) ==
    LET ofPackage(p) ==
            IF ~MatchesPackageName(RePackageName(c.package), p)
            THEN <<"invalid package name", p>> ELSE <<>>
        ofPort(p) ==
            IF p.Number = 0 THEN <<"the zero port is reserved">>
            ELSE IF p.Protocol = Unknown
            THEN <<"unknown network protocol for port " \o ToString(p.Number)>>
            ELSE <<>>
    IN  IF c.distro = Unknown THEN <<"missing distro">>
        ELSE IF c.package = Unknown THEN <<"missing package management backend">>
        ELSE IF c.userBackend = Unknown THEN <<"missing user management backend">>
        ELSE IF c.find = Unknown THEN <<"missing find implementation">>
        ELSE IF c.repository = "" THEN <<"missing image repository (name)">>
        ELSE IF ReferenceParse(ReferenceChars(c.repository, c.tag, "")) # <<>>
        THEN <<"parsing image reference">>
             \o ReferenceParse(ReferenceChars(c.repository, c.tag, ""))
        ELSE IF c.from.Repository = "" THEN <<"missing base image repository (name)">>
        ELSE IF c.from.Tag = "" /\ c.from.Digest = ""
        THEN <<"expected tag or digest for base image, found neither">>
        ELSE IF ReferenceParse(ReferenceChars(c.from.Repository, c.from.Tag,
                                              c.from.Digest)) # <<>>
        THEN <<"parsing base image reference">>
             \o ReferenceParse(ReferenceChars(c.from.Repository, c.from.Tag,
                                              c.from.Digest))
        ELSE IF FirstComplaint(c.install, ofPackage) # <<>>
        THEN FirstComplaint(c.install, ofPackage)
        ELSE IF c.user # <<>> /\ ValidateUser(c.user[1]) # <<>>
        THEN ValidateUser(c.user[1])
        ELSE IF FirstComplaint(c.copy, ValidateCopy) # <<>>
        THEN FirstComplaint(c.copy, ValidateCopy)
        ELSE IF BadKeys(c.annotations) # {}
        THEN <<"annotation key is not in reverse domain notation">>
        ELSE IF BadKeys(c.labels) # {}
        THEN <<"label key is not in reverse domain notation">>
        ELSE IF FirstComplaint(c.ports, ofPort) # <<>>
        THEN FirstComplaint(c.ports, ofPort)
        ELSE IF c.workDir # <<>> /\ ~IsAbs(c.workDir)
        THEN <<"working directory is not an absolute path", Concat(c.workDir)>>
        ELSE <<>>

\* spec.Fill: a backend left out is the default backend of the distro, a
\* protocol left out is TCP
Fill(c) ==
    [c EXCEPT !.package = IF @ = Unknown THEN DefaultPackageBackend(c.distro) ELSE @,
              !.userBackend = IF @ = Unknown THEN DefaultUserBackend(c.distro) ELSE @,
              !.find = IF @ = Unknown THEN DefaultFindBackend(c.distro) ELSE @,
              !.ports = [i \in 1..Len(@) |->
                           IF @[i].Protocol = Unknown
                           THEN [@[i] EXCEPT !.Protocol = "TCP"] ELSE @[i]]]

\* the home directory of the user who runs the build, when it is found
Homes == {<<>>, <<"/", "home", "/", "builder">>}

\* createSpec, lines 152-187: a base starts with "~" and needs the home
\* directory of the host
NeedsHome(c) == \E i \in 1..Len(c.copy) : HasPrefix(c.copy[i].Base, <<"~">>)

\* createSpec, lines 152-187: the paths of the copy rules are made absolute
\* and clean; a base "~name" is left as it is
Normalize(c, home) ==
    LET parent == Dir(c.path)
        base(b) == IF b = <<>> THEN parent
                   ELSE IF HasPrefix(b, <<"~">>)
                   THEN (IF b = <<"~">> THEN home
                         ELSE IF HasPrefix(b, <<"~", "/">>)
                         THEN Clean(Join(home, Cut(b, "/").after))
                         ELSE b)
                   ELSE IF IsLocal(b) THEN Clean(Join(parent, b))
                   ELSE Clean(b)
    IN  [c EXCEPT !.copy =
           [i \in 1..Len(@) |->
              [@[i] EXCEPT
                 !.Base = base(@),
                 !.Destination = IF @ # <<>> THEN Clean(@) ELSE @,
                 !.Sources = [j \in 1..Len(@) |->
                                IF @[j] # <<>> THEN Clean(@[j]) ELSE @[j]]]]]

\* what find may print
FindOutputs ==
    {<<>>,
     <<LF>>,
     <<"/bin/su", LF>>,
     <<"/bin/su", LF, "/usr/bin/passwd", LF>>,
     <<"/bin/su", CRLF, "/usr/bin/passwd", CRLF>>,
     <<"/bin/su", LF, "/home/dev/.local/bin/helper", LF>>}

\* find(1): the command leaves /home out when it prunes it
PrunesHome(cmd) ==
    \E i \in 1..(Len(cmd) - 1) : cmd[i] = "/home" /\ cmd[i + 1] = "-prune"

\* what the find command cmd may print: nothing under /home when it prunes it
FindOutputsOf(cmd) ==
    IF PrunesHome(cmd)
    THEN {o \in FindOutputs : Range(o) \cap HomePaths = {}}
    ELSE FindOutputs

\* From.Reference(): repository, :tag when there is a tag, @digest when there
\* is a digest
FromReference(f) ==
    f.Repository \o (IF f.Tag # "" THEN ":" \o f.Tag ELSE "")
                 \o (IF f.Digest # "" THEN "@" \o f.Digest ELSE "")

\* This.Reference(): repository, and :tag when there is a tag
Reference(c) ==
    IF c.tag # "" THEN c.repository \o ":" \o c.tag ELSE c.repository

\* commit: the reference the image is committed under
CommitReference(c) == c.repository \o ":" \o c.tag

Refs == {"example/img:v1", "example/img:latest"}

ImageOf(p) == "image-" \o p

\* ------------------------------------------------------------------------
\* State
\* ------------------------------------------------------------------------

VARIABLES
    store,   \* the image store: tags, and the journal of commits
    cfg,     \* per run: the spec and the options Execute was called with
    pc,      \* per run: the position of Execute
    ops,     \* per run: the operations issued so far
    ret,     \* per run: <<"pending">>, <<"nil">> or <<"error", context...>>
    ctr,     \* per run: the working container
    defers   \* per run: the stack of deferred calls

vars == <<store, cfg, pc, ops, ret, ctr, defers>>

\* Container{}
NoContainer == [id |-> "", os |-> "", env |-> <<>>, annotations |-> <<>>]

Pending == <<"pending">>

Nil == <<"nil">>

Error(context) == <<"error">> \o context

IsError(r) == r[1] = "error"

InitStores ==
    {[tags |-> [r \in Refs |-> img], journal |-> <<>>] : img \in {NoImage, "image-old"}}

\* one run of Execute, the other invocation never made
InitSingle ==
    /\ store \in InitStores
    /\ \E c \in ShapeCfgs \cup UserCfgs \cup SweepCfgs \cup StoreCfgs \cup RawCfgs
                 \cup ShellCfgs \cup ScenarioCfgs \cup AnnotationCfgs
                 \cup FullCfgs \cup EdgeCfgs :
          cfg = [p \in Procs |-> IF p = "A" THEN c ELSE BaseCfg("Alpine")]
    /\ IF cfg["A"] \in StoreCfgs \/ Reference(cfg["A"]) \notin Refs
       THEN TRUE
       ELSE store.tags[Reference(cfg["A"])] = NoImage
    /\ pc = [p \in Procs |-> IF p = "A" THEN "load" ELSE "off"]

\* two concurrent runs of Execute on the same target
InitRace ==
    /\ store \in InitStores
    /\ cfg \in [Procs -> {[BaseCfg("Alpine") EXCEPT !.force = f] : f \in BOOLEAN}]
    /\ pc = [p \in Procs |-> "load"]

Init ==
    /\ (InitSingle \/ InitRace)
    /\ ops = [p \in Procs |-> <<>>]
    /\ ret = [p \in Procs |-> Pending]
    /\ ctr = [p \in Procs |-> NoContainer]
    /\ defers = [p \in Procs |-> <<>>]

\* ------------------------------------------------------------------------
\* The pipeline
\* ------------------------------------------------------------------------

\* a pipeline that installs before it upgrades
MutSteps == <<"install", "upgrade", "clean", "user", "copy", "sweep", "configure">>

Steps == <<"upgrade", "install", "clean", "user", "copy", "sweep", "configure">>

\* Execute: the condition under which a step of the pipeline runs
Enabled(c, step) ==
    CASE step = "upgrade" -> c.upgrade
      [] step = "install" -> Len(c.install) > 0
      [] step = "clean" -> c.clean
      [] step = "user" -> c.user # <<>>
      [] step = "copy" -> Len(c.copy) > 0
      [] step = "sweep" -> c.removeS
      [] OTHER -> TRUE

\* the first step from position i of Steps on that runs
RECURSIVE StepFrom(_, _)
StepFrom(c, i) ==
    IF Enabled(c, Steps[i]) THEN Steps[i] ELSE StepFrom(c, i + 1)

Index(step) == CHOOSE i \in 1..Len(Steps) : Steps[i] = step

\* the step that runs once `step` has succeeded
After(c, step) == StepFrom(c, Index(step) + 1)

Append1(p, entries) == ops' = [ops EXCEPT ![p] = @ \o entries]

\* an error that is recorded without returning: the pipeline goes on
MutFail(p, context) ==
    /\ ret' = [ret EXCEPT ![p] = Error(context)]
    /\ pc' = [pc EXCEPT ![p] = "configure"]

\* a step returns err: Execute wraps it and returns, the deferred calls pending
Fail(p, context) ==
    /\ ret' = [ret EXCEPT ![p] = Error(context)]
    /\ pc' = [pc EXCEPT ![p] = "deferred"]

Goto(p, step) ==
    /\ pc' = [pc EXCEPT ![p] = step]
    /\ UNCHANGED ret

\* the entries of a pipeline step, in the order they were issued
OfStep(log, step) == SelectSeq(log, LAMBDA e : e.step = step)

\* the run is not at the step: the step has not begun, or it is over
NotAt(p, step) == pc[p] # step

\* One Container.Run of a step: the invocation of the plan that follows the
\* `done` already made runs and exits.  The step returns its error when the
\* command failed, stays where it is when the plan has more invocations, and
\* is over when this was the last one.
RunStep(p, step, context, plan, done) ==
    \E ok \in BOOLEAN :
      \E errText \in (IF ok THEN {""} ELSE ErrTexts) :
        LET r == RunPlan(step, <<plan[done + 1]>>, IF ok THEN 0 ELSE 1, errText)
        IN  /\ Append1(p, r.ops)
            /\ IF r.err # <<>>
               THEN Fail(p, <<context>> \o r.err)
               ELSE IF done + 1 < Len(plan)
               THEN Goto(p, step)
               ELSE Goto(p, After(cfg[p], step))
            /\ UNCHANGED <<store, cfg, ctr, defers>>

\* a check that ignores the force option
MutRefuses(exists, force) == exists

\* Execute, line 48: the build is refused when the image exists, unless forced
Refuses(exists, force) == exists /\ ~force

\* createSpec: read the file at an absolute path, decode it, fill the
\* decoded spec, normalize its copy rules and validate it; Execute is called
\* with a spec that passed only.  filepath.Abs is given an absolute path
\* and does not fail.
CreateSpec(p) ==
    /\ pc[p] = "load"
    /\ \E read \in BOOLEAN, home \in Homes :
       LET s == Normalize(Fill(cfg[p]), home)
           err == IF ~IsAbs(cfg[p].path)
                  THEN <<"expected absolute path", Concat(cfg[p].path)>>
                  ELSE IF ~read THEN <<"reading spec file">>
                  ELSE IF Decode(cfg[p]) # <<>>
                  THEN <<"decoding TOML">> \o Decode(cfg[p])
                  ELSE IF NeedsHome(cfg[p]) /\ home = <<>>
                  THEN <<"discovering home directory on host">>
                  ELSE IF Validate(s) # <<>>
                  THEN <<"validating spec">> \o Validate(s)
                  ELSE <<>>
       IN  IF err # <<>>
           THEN /\ ret' = [ret EXCEPT ![p] =
                              Error(<<"creating in-memory representation of spec">>
                                    \o err)]
                /\ pc' = [pc EXCEPT ![p] = "done"]
                /\ UNCHANGED cfg
           ELSE /\ cfg' = [cfg EXCEPT ![p] = s]
                /\ pc' = [pc EXCEPT ![p] = "start"]
                /\ UNCHANGED ret
    /\ UNCHANGED <<store, ops, ctr, defers>>

\* Execute, lines 29-50: open the store and look for the target image
CheckExists(p) ==
    /\ pc[p] = "start"
    /\ \E storeOk \in BOOLEAN :
         IF ~storeOk
         THEN /\ ret' = [ret EXCEPT ![p] = Error(<<"creating store">>)]
              /\ pc' = [pc EXCEPT ![p] = "done"]
              /\ UNCHANGED <<store, cfg, ops, ctr, defers>>
         ELSE LET refThis == Reference(cfg[p])
                  exists == refThis \in DOMAIN store.tags /\ store.tags[refThis] # NoImage
              IN  /\ defers' = [defers EXCEPT ![p] = <<"shutdown">>]
                  /\ Append1(p, <<Call("exists", "check", <<refThis>>, exists)>>)
                  /\ IF Refuses(exists, cfg[p].force)
                     THEN Fail(p, <<"image already exists", refThis>>)
                     ELSE Goto(p, "create")
                  /\ UNCHANGED <<store, cfg, ctr>>

\* an OS check that lets every image through
MutIsLinux(os) == TRUE

\* Execute, lines 85-87: the working container must report the OS "linux"
IsLinux(os) == os = "linux"

\* Execute, lines 52-107: create the working container, check its OS, set
\* the common options and create the frontends
NewBuilder(p) ==
    /\ pc[p] = "create"
    /\ \E created \in BOOLEAN, os \in {"linux", "windows"} :
         /\ Append1(p, <<Call("create", "create", <<FromReference(cfg[p].from)>>, created)>>)
         /\ IF ~created
            THEN /\ Fail(p, <<"creating Buildah builder">>)
                 /\ UNCHANGED <<ctr, defers>>
            ELSE /\ defers' = [defers EXCEPT ![p] = <<"remove">> \o @]
                 /\ ctr' = [ctr EXCEPT ![p] =
                       [id |-> "ctr-" \o p, os |-> os,
                        annotations |-> cfg[p].baseAnnotations,
                        env |-> IF IsLinux(os) /\ cfg[p].distro = "Debian"
                                THEN <<"DEBIAN_FRONTEND=noninteractive">>
                                ELSE <<>>]]
                 /\ IF ~IsLinux(os)
                    THEN Fail(p, <<"expected 'linux' image", os>>)
                    ELSE IF cfg[p].package \notin PackageBackends
                    THEN Fail(p, <<"creating package management interface">>)
                    ELSE IF cfg[p].userBackend \notin UserBackends
                    THEN Fail(p, <<"creating user management interface">>)
                    ELSE IF cfg[p].find \notin FindBackends
                    THEN Fail(p, <<"creating find command factory">>)
                    ELSE Goto(p, StepFrom(cfg[p], 1))
    /\ UNCHANGED <<store, cfg>>

\* Execute, lines 109-115, and upgradePackages
UpgradePackages(p) ==
    /\ pc[p] = "upgrade"
    /\ RunStep(p, "upgrade", "upgrading packages",
               Upgrade(cfg[p].package, ctr[p].env),
               Len(OfStep(ops[p], "upgrade")))

\* Execute, lines 117-123, and installPackages
InstallPackages(p) ==
    /\ pc[p] = "install"
    /\ RunStep(p, "install", "installing packages",
               Install(cfg[p].package, ctr[p].env, cfg[p].install),
               Len(OfStep(ops[p], "install")))

\* Execute, lines 125-130, and cleanPackageCaches
CleanPackageCaches(p) ==
    /\ pc[p] = "clean"
    /\ RunStep(p, "clean", "cleaning package caches",
               PackageFrontendCleanCaches(cfg[p].package, ctr[p].env),
               Len(OfStep(ops[p], "clean")))

\* Execute, lines 132-144: the options handed to the user frontend
CreateUserOptions(u) ==
    [ID |-> u.ID, UserGroup |-> u.UserGroup, Groups |-> u.Groups,
     Comment |-> u.Comment, CreateHome |-> u.CreateHome]

\* Execute, lines 132-144, and createUser
CreateUser(p) ==
    /\ pc[p] = "user"
    /\ LET u == cfg[p].user[1]
           env == ctr[p].env
           made == OfStep(ops[p], "user")
       IN  IF cfg[p].userBackend = "Shadow"
           THEN IF made = <<>>
                THEN \* the probe for sss_cache: its failure is logged only
                     \E sssFound \in BOOLEAN :
                       /\ Append1(p, <<ResolveExecutable("user", env, "sss_cache",
                                                         sssFound)>>)
                       /\ Goto(p, "user")
                       /\ UNCHANGED <<store, cfg, ctr, defers>>
                ELSE RunStep(p, "user", "creating nonroot user",
                             ShadowUserFrontendCreateUser(
                                 env, u.Name, CreateUserOptions(u), made[1].ok),
                             Len(made) - 1)
           ELSE RunStep(p, "user", "creating nonroot user",
                        BusyBoxUserFrontendCreateUser(env, u.Name, CreateUserOptions(u)),
                        Len(made))

\* the copy operations issued so far
Copies(log) == {i \in 1..Len(log) : log[i].op = "add"}

\* Execute, lines 146-159, and copyFiles: one Builder.Add per rule
CopyFiles(p) ==
    /\ pc[p] = "copy"
    /\ LET i == Cardinality(Copies(ops[p])) + 1
       IN  \E added \in BOOLEAN :
             /\ Append1(p, <<Call("add", "copy", <<cfg[p].copy[i]>>, added)>>)
             /\ IF ~added
                THEN Fail(p, <<"copying files", Concat(cfg[p].copy[i].Base),
                               Concat(cfg[p].copy[i].Destination)>>)
                ELSE IF i < Len(cfg[p].copy)
                THEN Goto(p, "copy")
                ELSE Goto(p, After(cfg[p], "copy"))
    /\ UNCHANGED <<store, cfg, ctr, defers>>

\* Execute, lines 161-166, and unsetSpecialBits
UnsetSpecialBits(p) ==
    /\ pc[p] = "sweep"
    /\ LET made == OfStep(ops[p], "sweep")
       IN  IF made = <<>>
           THEN \* find runs and prints outText
                \E outText \in FindOutputsOf(NewFindSpecialCmd(cfg[p].find).cmd) :
                  RunStep(p, "sweep", "removing SUID and SGID bits from files",
                          UnsetSpecialBitsPlan(cfg[p].find, ctr[p].env,
                                               cfg[p].excludes, outText),
                          0)
           ELSE \* chmod runs on the targets parsed from the output of find
                RunStep(p, "sweep", "removing SUID and SGID bits from files",
                        UnsetSpecialBitsPlan(cfg[p].find, ctr[p].env,
                                             cfg[p].excludes, made[1].out),
                        1)

\* configure, lines 307-316: unset the inherited annotations the test on the
\* key lets go when clearing is asked for, then set the given annotations
ConfigureAnnotations(inherited, clearAnnotations, annotations) ==
    LET kept == IF clearAnnotations
                THEN {k \in DOMAIN inherited : HasPrefix(OCIBase, k)}
                ELSE DOMAIN inherited
    IN  [k \in kept \cup DOMAIN annotations |->
            IF k \in DOMAIN annotations THEN annotations[k] ELSE inherited[k]]

\* Execute, lines 167-169: the digest of the spec file joins the annotations
WithDigest(annotations, digest) ==
    IF digest # ""
    THEN [k \in DOMAIN annotations \cup {<<"org.github.ok-ryoko.turret.spec.digest">>} |->
            IF k = <<"org.github.ok-ryoko.turret.spec.digest">> THEN digest
            ELSE annotations[k]]
    ELSE annotations

\* Execute, lines 167-199, and configure
Configure(p) ==
    /\ pc[p] = "configure"
    /\ Append1(p, <<Call("configure", "configure", <<>>, TRUE)>>)
    /\ ctr' = [ctr EXCEPT ![p].annotations =
                  ConfigureAnnotations(@, cfg[p].clearAnnotations,
                                       WithDigest(cfg[p].annotations, cfg[p].digest))]
    /\ Goto(p, "commit")
    /\ UNCHANGED <<store, cfg, defers>>

\* the zero time.Time
ZeroTime == "0001-01-01T00:00:00Z"

\* commit, lines 262-280: the buildah.CommitOptions of the commit
CommitOptions(repository, tag, keepHistory, latest) ==
    [HistoryTimestamp |-> IF keepHistory THEN <<>> ELSE <<ZeroTime>>,
     OmitHistory |-> FALSE,
     Squash |-> TRUE,
     AdditionalTags |-> IF latest /\ tag # "latest"
                        THEN <<repository \o ":latest">> ELSE <<>>]

\* a store in which the first commit of a reference wins
MutCommitImage(st, refs, image, p) ==
    [tags |-> [r \in DOMAIN st.tags |->
                 IF r \in refs /\ st.tags[r] = NoImage THEN image ELSE st.tags[r]],
     journal |-> Append(st.journal, p)]

\* Builder.Commit on the store: the reference and the additional tags now
\* name the new image
CommitImage(st, refs, image, p) ==
    [tags |-> [r \in DOMAIN st.tags |-> IF r \in refs THEN image ELSE st.tags[r]],
     journal |-> Append(st.journal, p)]

\* the IDs of the images of a store
ImageIDs(st) == {st.tags[r] : r \in DOMAIN st.tags} \ {NoImage}

\* Execute, lines 201-219, and commit: the reference repository:tag is
\* parsed for the store, and the image is committed under it only when it
\* parses
Commit(p) ==
    /\ pc[p] = "commit"
    /\ \E committed \in BOOLEAN :
         LET c == cfg[p]
             co == CommitOptions(c.repository, c.tag, c.keepHistory, c.latest)
             imageRef == Chars(c.repository) \o <<":">> \o Chars(c.tag)
             err == ParseStoreReference(ImageIDs(store), imageRef)
         IN
         IF err # <<>>
         THEN /\ Fail(p, <<"committing image", "parsing reference">> \o err)
              /\ UNCHANGED <<store, ops>>
         ELSE
         /\ Append1(p, <<[Call("commit", "commit", <<CommitReference(c)>>, committed)
                            EXCEPT !.co = <<co>>]>>)
         /\ IF committed
            THEN /\ store' = CommitImage(store,
                                         {CommitReference(c)} \cup Range(co.AdditionalTags),
                                         ImageOf(p), p)
                 /\ ret' = [ret EXCEPT ![p] = Nil]
                 /\ pc' = [pc EXCEPT ![p] = "deferred"]
            ELSE /\ Fail(p, <<"committing image">>)
                 /\ UNCHANGED store
    /\ UNCHANGED <<cfg, ctr, defers>>

\* a removal that ignores the keep option
MutDeferredRemove(p, removed) ==
    IF "remove" \in Range(defers[p])
    THEN <<Call("delete", "cleanup", <<ctr[p].id>>, removed)>>
    ELSE <<>>

\* the deferred removal of the working container, unless it is kept
DeferredRemove(p, removed) ==
    IF "remove" \in Range(defers[p]) /\ ~cfg[p].keep
    THEN <<Call("delete", "cleanup", <<ctr[p].id>>, removed)>>
    ELSE <<>>

\* a failed removal that is escalated to the caller
MutReturned(r, removed) ==
    IF removed THEN r ELSE Error(<<"deleting container">>)

\* the value Execute returns once its deferred calls have run
Returned(r, removed) == r

\* Execute returns: the deferred function registered last runs and leaves
\* the stack; Execute has returned when the stack is empty
RunDeferred(p) ==
    /\ pc[p] = "deferred"
    /\ IF Head(defers[p]) = "remove"
       THEN \E removed \in BOOLEAN :
              LET rm == DeferredRemove(p, removed)
              IN  /\ Append1(p, rm)
                  /\ ctr' = [ctr EXCEPT ![p] =
                               IF rm # <<>> /\ removed THEN NoContainer ELSE @]
                  /\ ret' = [ret EXCEPT ![p] = Returned(@, rm = <<>> \/ removed)]
       ELSE \E shut \in BOOLEAN :
              /\ Append1(p, <<Call("shutdown", "cleanup", <<>>, shut)>>)
              /\ UNCHANGED <<ctr, ret>>
    /\ pc' = [pc EXCEPT ![p] = IF Len(defers[p]) > 1 THEN "deferred" ELSE "done"]
    /\ defers' = [defers EXCEPT ![p] = Tail(@)]
    /\ UNCHANGED <<store, cfg>>

Next ==
    \E p \in Procs :
        \/ CreateSpec(p)
        \/ CheckExists(p)
        \/ NewBuilder(p)
        \/ UpgradePackages(p)
        \/ InstallPackages(p)
        \/ CleanPackageCaches(p)
        \/ CreateUser(p)
        \/ CopyFiles(p)
        \/ UnsetSpecialBits(p)
        \/ Configure(p)
        \/ Commit(p)
        \/ RunDeferred(p)

Spec == Init /\ [][Next]_vars

\* ------------------------------------------------------------------------
\* Parsing the list of installed packages
\* ------------------------------------------------------------------------

\* A line of output is a sequence of tokens: a word, or one of the
\* separators " ", "-", "." and "|".

\* the loop of a parse function: the name of every line in order, or the
\* error of the first line that has one
ParseLines(lines, name(_)) ==
    LET rs == [i \in 1..Len(lines) |-> name(lines[i])]
    IN  IF \E i \in 1..Len(rs) : IsError(rs[i])
        THEN rs[CHOOSE i \in 1..Len(rs) : IsError(rs[i]) /\ \A j \in 1..(i - 1) : ~IsError(rs[j])]
        ELSE <<"ok", [i \in 1..Len(rs) |-> Concat(rs[i][2])]>>

\* a parser that takes the last hyphen for the end of the name
MutAPKParse(lines) ==
    LET name(l) ==
          LET c == Cut(l, " ")
              i == LastIndex(c.before, "-")
          IN  IF ~c.found THEN Error(<<"expected space delimiter in line">>)
              ELSE IF i = -1
              THEN Error(<<"expected format 'name-version-revision' for field">>)
              ELSE <<"ok", SubSeq(c.before, 1, i)>>
    IN  ParseLines(lines, name)

\* APKCommandFactory.NewListInstalledPackagesCmd: parse
APKParse(lines) ==
    LET name(l) ==
          LET c == Cut(l, " ")
              i == LastIndex(c.before, "-")
              j == LastIndex(SubSeq(c.before, 1, i), "-")
          IN  IF ~c.found THEN Error(<<"expected space delimiter in line">>)
              ELSE IF i = -1
              THEN Error(<<"expected format 'name-version-revision' for field">>)
              ELSE IF j = -1
              THEN Error(<<"expected format 'name-version-revision' for field">>)
              ELSE <<"ok", SubSeq(c.before, 1, j)>>
    IN  ParseLines(lines, name)

\* APTCommandFactory.NewListInstalledPackagesCmd: parse
APTParse(lines) == <<"ok", [i \in 1..Len(lines) |-> Concat(lines[i])]>>

\* DNFCommandFactory.NewListInstalledPackagesCmd: parse
DNFParse(lines) ==
    LET name(l) ==
          LET c == Cut(l, " ")
              i == LastIndex(c.before, ".")
          IN  IF ~c.found THEN Error(<<"expected space delimiter in line">>)
              ELSE IF i = -1 THEN Error(<<"expected format 'name.arch' for field">>)
              ELSE <<"ok", SubSeq(c.before, 1, i)>>
    IN  IF Len(lines) < 2 THEN <<"ok", <<>>>>
        ELSE ParseLines(SubSeq(lines, 2, Len(lines)), name)

\* PacmanCommandFactory.NewListInstalledPackagesCmd: parse
PacmanParse(lines) == <<"ok", [i \in 1..Len(lines) |-> Concat(lines[i])]>>

\* XBPSCommandFactory.NewListInstalledPackagesCmd: parse
XBPSParse(lines) ==
    LET name(l) ==
          LET f == Fields(l)
              i == IF Len(f) < 3 THEN -1 ELSE LastIndex(f[2], "-")
          IN  IF Len(f) < 3 THEN Error(<<"expected at least 3 fields in line">>)
              ELSE IF i = -1
              THEN Error(<<"expected format 'name-version_revision' for field">>)
              ELSE <<"ok", SubSeq(f[2], 1, i)>>
    IN  ParseLines(lines, name)

\* ZypperCommandFactory.NewListInstalledPackagesCmd: parse
ZypperParse(lines) ==
    LET name(l) ==
          LET f == SplitBy(l, "|")
          IN  IF Len(f) # 5 THEN Error(<<"expected 5 fields in line">>)
              ELSE <<"ok", TrimSpace(f[3])>>
    IN  IF Len(lines) < 3 THEN <<"ok", <<>>>>
        ELSE ParseLines(SubSeq(lines, 3, Len(lines)), name)

\* the longest listings that are parsed
MaxRows == 3

\* a line of a listing: the package it is printed for ("" when it is no
\* row of a package in the tool's format) and its tokens
Row(pkg, line) == [pkg |-> pkg, line |-> line]

\* the lines a tool prints before the rows
Header(b) ==
    CASE b = "DNF" -> <<<<"Installed", " ", "Packages">>>>
      [] b = "Zypper" ->
           << <<"S", " ", "|", " ", "Repository", " ", "|", " ", "Name", " ", "|", " ",
                "Version", " ", "|", " ", "Arch">>,
              <<"--+------------+------+---------+-------">> >>
      [] OTHER -> <<>>

\* the lines a listing is made of, per tool: rows of packages in the tool's
\* format, and lines that are not in that format
Listing(b) ==
    CASE b = "APK" ->
           {Row("musl", <<"musl", "-", "1.2.4", "-", "r2", " ", "x86_64", " ",
                          "{musl}", " ", "(MIT)", " ", "[installed]">>),
            Row("alpine-baselayout-data",
                <<"alpine", "-", "baselayout", "-", "data", "-", "3.4.3", "-", "r2", " ",
                  "x86_64", " ", "{alpine-baselayout}", " ", "(GPL-2.0-only)", " ",
                  "[installed]">>),
            Row("", <<"musl", "-", "1.2.4", "-", "r2">>),
            Row("", <<"musl", "-", "1.2.4", " ", "x86_64">>),
            Row("", <<"zlib", "-", "1.2.13", "-", "r1", " ">>)}
      [] b = "APT" ->
           {Row("bash", <<"bash">>), Row("apt", <<"apt">>),
            Row("", <<"bash", " ", "5.2.15">>), Row("", <<>>)}
      [] b = "DNF" ->
           {Row("bash", <<"bash", ".", "x86_64", " ", "5.2.15-3.fc38", " ", "@anaconda">>),
            Row("python3.11", <<"python3", ".", "11", ".", "x86_64", " ", "3.11.4-1.fc38",
                                " ", "@updates">>),
            Row("", <<"bash", ".", "x86_64">>),
            Row("", <<"bash", " ", "5.2.15-3.fc38", " ", "@anaconda">>),
            Row("", <<" ", "5.2.15-3.fc38", " ", "@anaconda">>),
            Row("", <<"bash", ".", "x86_64", " ", "5.2.15-3.fc38">>)}
      [] b = "Pacman" ->
           {Row("bash", <<"bash">>), Row("pacman", <<"pacman">>),
            Row("", <<"bash", " ", "5.2.015-1">>), Row("", <<>>)}
      [] b = "XBPS" ->
           {Row("base-files", <<"ii", " ", "base", "-", "files", "-", "0.144_1", " ", " ",
                                "Void", " ", "Linux">>),
            Row("xbps", <<"ii", " ", "xbps", "-", "0.59.2_1", " ", "XBPS", " ", "package",
                          " ", "manager">>),
            Row("", <<"ii", " ", "xbps", "-", "0.59.2_1">>),
            Row("", <<"ii", " ", "xbps", " ", "XBPS">>)}
      [] b = "Zypper" ->
           {Row("bash", <<"i", " ", "|", " ", "repo-oss", " ", "|", " ", "bash", " ", "|",
                          " ", "5.2.15", " ", "|", " ", "x86_64">>),
            Row("zypper", <<"i+", " ", "|", " ", "repo-oss", " ", "|", " ", "zypper", " ",
                            "|", " ", "1.14.59", " ", "|", " ", "x86_64">>),
            Row("", <<"i", " ", "|", " ", "bash", " ", "|", " ", "5.2.15", " ", "|", " ",
                      "x86_64">>),
            Row("", <<>>)}

\* the listings of at most n lines after the header
Listings(b, n) == UNION {[1..k -> Listing(b)] : k \in 0..n}

\* the lines the tool of the base image prints for its installed packages:
\* the header, then the rows
LinesOf(c) == Header(c.package) \o [i \in 1..Len(c.installed) |-> c.installed[i].line]

\* the text a tool prints: its lines, each ended by the line terminator
RECURSIVE Printed(_, _)
Printed(lines, eol) ==
    IF Len(lines) = 0 THEN <<>>
    ELSE lines[1] \o <<eol>> \o Printed(Tail(lines), eol)

\* strings.Split(t, "\n") on the tokens of a text: always at least one line
RECURSIVE SplitLines(_)
SplitLines(t) ==
    IF \E i \in 1..Len(t) : t[i] = LF
    THEN LET i == CHOOSE k \in 1..Len(t) :
                    t[k] = LF /\ \A j \in 1..(k - 1) : t[j] # LF
         IN  <<Prefix(t, i - 1)>> \o SplitLines(SubSeq(t, i + 1, Len(t)))
    ELSE <<t>>

\* NewListInstalledPackagesCmd: the command and its capabilities
NewListInstalledPackagesCmd(b) ==
    [cmd |->
       CASE b = "APK" -> <<"apk", "--no-interactive", "--no-network", "--quiet",
                           "list", "--installed">>
         [] b = "APT" -> <<"apt-cache", "pkgnames">>
         [] b = "DNF" -> <<"dnf", "--color=never", "--quiet", "list", "--installed">>
         [] b = "Pacman" -> <<"pacman", "--color", "never", "--query", "--quiet">>
         [] b = "XBPS" -> <<"xbps-query", "--list-pkgs">>
         [] b = "Zypper" -> <<"zypper", "--non-interactive", "--quiet", "--terse",
                              "--no-remote", "packages", "--installed-only">>,
     capabilities |-> <<>>]

\* NewListInstalledPackagesCmd: parse, the function each factory returns
Parse(b, lines) ==
    CASE b = "APK" -> APKParse(lines)
      [] b = "APT" -> APTParse(lines)
      [] b = "DNF" -> DNFParse(lines)
      [] b = "Pacman" -> PacmanParse(lines)
      [] b = "XBPS" -> XBPSParse(lines)
      [] b = "Zypper" -> ZypperParse(lines)

\* ------------------------------------------------------------------------
\* The package frontends, called on their own
\* ------------------------------------------------------------------------

\* the package lists a frontend is handed, the empty one included
FrontendCfgs ==
    UNION {{[BaseCfg(d) EXCEPT !.install = pk, !.installed = rows] :
               pk \in Prefixes(PackageNames, MaxPkgs),
               rows \in Listings(DefaultPackageBackend(d), 1)} : d \in Distros}

\* the working container of a run on the image of a distro
WorkingContainer(p, c) ==
    [id |-> "ctr-" \o p, os |-> "linux", annotations |-> <<>>,
     env |-> IF c.distro = "Debian" THEN <<"DEBIAN_FRONTEND=noninteractive">> ELSE <<>>]

\* a working container of each distro, and a frontend method about to be called
InitFrontend ==
    /\ store = [tags |-> [r \in Refs |-> NoImage], journal |-> <<>>]
    /\ cfg \in [Procs -> FrontendCfgs]
    /\ cfg["B"] = BaseCfg("Alpine")
    /\ pc = [p \in Procs |-> IF p = "A" THEN "call" ELSE "off"]
    /\ ops = [p \in Procs |-> <<>>]
    /\ ret = [p \in Procs |-> Pending]
    /\ ctr = [p \in Procs |-> IF p = "A" THEN WorkingContainer(p, cfg[p]) ELSE NoContainer]
    /\ defers = [p \in Procs |-> <<>>]

\* One runWithLogging of a frontend method: the method is called, or is in
\* the method at its next invocation; it returns the error of a failed
\* command, goes on to its next invocation, or returns nil after the last one
FrontendCall(p, step, plan, returned) ==
    /\ pc[p] \in {"call", "in " \o step}
    /\ \E ok \in BOOLEAN :
         \E errText \in (IF ok THEN {""} ELSE ErrTexts) :
           LET done == Len(ops[p])
               r == RunPlan(step, <<plan[done + 1]>>, IF ok THEN 0 ELSE 1, errText)
           IN  /\ Append1(p, r.ops)
               /\ IF r.err # <<>>
                  THEN /\ ret' = [ret EXCEPT ![p] = Error(r.err)]
                       /\ pc' = [pc EXCEPT ![p] = returned]
                  ELSE IF done + 1 < Len(plan)
                  THEN /\ pc' = [pc EXCEPT ![p] = "in " \o step]
                       /\ UNCHANGED ret
                  ELSE /\ ret' = [ret EXCEPT ![p] = Nil]
                       /\ pc' = [pc EXCEPT ![p] = returned]
    /\ UNCHANGED <<store, cfg, ctr, defers>>

\* PackageFrontendInterface.Install(c, packages)
FrontendInstall(p) ==
    FrontendCall(p, "install",
                    Install(cfg[p].package, ctr[p].env, cfg[p].install), "installed")

\* PackageFrontendInterface.Upgrade(c)
FrontendUpgrade(p) ==
    FrontendCall(p, "upgrade", Upgrade(cfg[p].package, ctr[p].env), "upgraded")

\* PackageFrontendInterface.CleanCaches(c)
FrontendCleanCaches(p) ==
    FrontendCall(p, "clean",
                    PackageFrontendCleanCaches(cfg[p].package, ctr[p].env), "cleaned")

\* PackageFrontendInterface.List(c): run the list command, split its
\* standard output into lines and parse them
FrontendList(p) ==
    /\ pc[p] = "call"
    /\ \E ok \in BOOLEAN, eol \in {LF, CRLF} :
         \E errText \in (IF ok THEN {""} ELSE ErrTexts) :
           LET b == cfg[p].package
               d == NewListInstalledPackagesCmd(b)
               ro == WithCapabilities(DefaultRunOptions(ctr[p].env), d.capabilities)
               outText == IF ok THEN Printed(LinesOf(cfg[p]), eol) ELSE <<>>
               lines == SplitLines(ReplaceAll(TrimSpace(outText)))
               packages == Parse(b, lines)
           IN  /\ Append1(p, <<[Run("list", "list", d.cmd, ro, ok) EXCEPT !.out = outText]>>)
               /\ ret' = [ret EXCEPT ![p] =
                            IF ~ok
                            THEN Error(RunError("listing installed " \o b \o " packages",
                                                errText))
                            ELSE IF IsError(packages)
                            THEN Error(<<"parsing installed packages">> \o Tail(packages))
                            ELSE packages]
               /\ pc' = [pc EXCEPT ![p] = "listed"]
    /\ UNCHANGED <<store, cfg, ctr, defers>>

NextFrontend ==
    \E p \in Procs :
        \/ FrontendInstall(p)
        \/ FrontendUpgrade(p)
        \/ FrontendCleanCaches(p)
        \/ FrontendList(p)

SpecFrontend == InitFrontend /\ [][NextFrontend]_vars

\* a working container whose tool prints a listing, and List about to be
\* called on it
InitParse ==
    /\ store = [tags |-> [r \in Refs |-> NoImage], journal |-> <<>>]
    /\ \E d \in Distros : \E rows \in Listings(DefaultPackageBackend(d), MaxRows) :
          cfg = [p \in Procs |->
                   IF p = "A" THEN [BaseCfg(d) EXCEPT !.installed = rows]
                   ELSE BaseCfg("Alpine")]
    /\ pc = [p \in Procs |-> IF p = "A" THEN "call" ELSE "off"]
    /\ ops = [p \in Procs |-> <<>>]
    /\ ret = [p \in Procs |-> Pending]
    /\ ctr = [p \in Procs |-> IF p = "A" THEN WorkingContainer(p, cfg[p]) ELSE NoContainer]
    /\ defers = [p \in Procs |-> <<>>]

NextParse == \E p \in Procs : FrontendList(p)

SpecParse == InitParse /\ [][NextParse]_vars

\* Execute on a spec of the Debian image with every step on, beside a caller
\* that has a working container of its own and is about to call a method of
\* its package frontend
InitBeside ==
    /\ store = [tags |-> [r \in Refs |-> NoImage], journal |-> <<>>]
    /\ \E ub \in {"Shadow", "BusyBox"}, rows \in Listings("APT", 1) :
          cfg = [p \in Procs |->
                   IF p = "A"
                   THEN [BaseCfg("Debian") EXCEPT
                            !.userBackend = ub, !.upgrade = TRUE, !.install = <<"git">>,
                            !.clean = TRUE,
                            !.user = <<NewUser(0, TRUE, <<"wheel">>, <<>>, TRUE)>>,
                            !.removeS = TRUE]
                   ELSE [BaseCfg("Debian") EXCEPT !.installed = rows]]
    /\ pc = [p \in Procs |-> IF p = "A" THEN "load" ELSE "call"]
    /\ ops = [p \in Procs |-> <<>>]
    /\ ret = [p \in Procs |-> Pending]
    /\ ctr = [p \in Procs |-> IF p = "A" THEN NoContainer ELSE WorkingContainer(p, cfg[p])]
    /\ defers = [p \in Procs |-> <<>>]

\* every way a command is run in a container: by the steps of Execute, and
\* by the methods of a package frontend called on their own, List among them
InitCommands == Init \/ InitFrontend \/ InitBeside

NextCommands == Next \/ NextFrontend

SpecCommands == InitCommands /\ [][NextCommands]_vars

\* ------------------------------------------------------------------------
\* Reading the operation log
\* ------------------------------------------------------------------------

Indices(log) == 1..Len(log)

\* the logical commands of a sequence of entries
Names(log) == [i \in Indices(log) |-> log[i].cmd]

Has(log, op) == \E i \in Indices(log) : log[i].op = op

HasOk(log, op) == \E i \in Indices(log) : log[i].op = op /\ log[i].ok

Count(log, op) == Cardinality({i \in Indices(log) : log[i].op = op})

CleanupOps == {"delete", "shutdown"}

\* an operation of a pipeline step that failed; the probe for an optional
\* helper and the existence check are no failures
Failed(e) ==
    /\ ~e.ok
    /\ e.op \in {"create", "run", "add", "configure", "commit"}
    /\ e.cmd # "resolve"

\* ------------------------------------------------------------------------
\* C1: the order of the pipeline
\* ------------------------------------------------------------------------

ClaimedOrder ==
    <<"upgrade", "install", "clean", "user", "copy", "sweep", "configure", "commit">>

Rank(step) ==
    IF \E i \in 1..Len(ClaimedOrder) : ClaimedOrder[i] = step
    THEN CHOOSE i \in 1..Len(ClaimedOrder) : ClaimedOrder[i] = step
    ELSE IF step = "cleanup" THEN Len(ClaimedOrder) + 1 ELSE 0

\* what the spec asks for, read off the spec fields
Requested(c, step) ==
    CASE step = "upgrade" -> c.upgrade = TRUE
      [] step = "install" -> c.install # <<>>
      [] step = "clean" -> c.clean = TRUE
      [] step = "user" -> c.user # <<>>
      [] step = "copy" -> c.copy # <<>>
      [] step = "sweep" -> c.removeS = TRUE
      [] OTHER -> TRUE

CopiedRules(log) ==
    LET adds == OfStep(log, "copy") IN [i \in Indices(adds) |-> adds[i].argv[1]]

\* C1: the operations of a run are issued in the order upgrade, install,
\* clean, user, copy (one per rule, in rule order), sweep, configure, commit;
\* a step the spec does not ask for issues no operation; a run that
\* succeeds has issued every step the spec asks for.
C1_PipelineOrder ==
    \A p \in Procs :
        LET log == ops[p] IN
        /\ \A i \in 1..(Len(log) - 1) : Rank(log[i].step) <= Rank(log[i + 1].step)
        /\ \A i \in Indices(log) :
              Rank(log[i].step) \in 1..Len(ClaimedOrder) => Requested(cfg[p], log[i].step)
        /\ \E n \in 0..Len(cfg[p].copy) : CopiedRules(log) = Prefix(cfg[p].copy, n)
        /\ ret[p] = Nil =>
              /\ \A k \in 1..Len(ClaimedOrder) :
                    Requested(cfg[p], ClaimedOrder[k]) =>
                        \E i \in Indices(log) : log[i].step = ClaimedOrder[k]
              /\ CopiedRules(log) = cfg[p].copy
              /\ Count(log, "configure") = 1 /\ Count(log, "commit") = 1

\* a run of every step, two copy rules, that has succeeded
C1_Witness ==
    \E p \in Procs :
        /\ ret[p] = Nil /\ pc[p] = "done"
        /\ cfg[p].upgrade /\ cfg[p].install # <<>> /\ cfg[p].clean
        /\ cfg[p].user # <<>> /\ Len(cfg[p].copy) = 2 /\ cfg[p].removeS
        /\ Count(ops[p], "add") = 2

\* ------------------------------------------------------------------------
\* C2: a failing step aborts the pipeline
\* ------------------------------------------------------------------------

\* C2: once an operation of a step has failed, only the deletion of the
\* container and the shutdown of the store are issued, the error is what
\* Execute returns, and nothing is configured or committed afterwards.
C2_AbortOnFailure ==
    /\ [](\A p \in Procs :
            LET log == ops[p] IN
            /\ \A i, j \in Indices(log) :
                  (i < j /\ Failed(log[i])) => log[j].op \in CleanupOps
            /\ (\E i \in Indices(log) : Failed(log[i])) => IsError(ret[p]))
    /\ [][\A p \in Procs :
            IsError(ret[p]) =>
                /\ ret'[p] = ret[p]
                /\ Len(ops'[p]) >= Len(ops[p])
                /\ \A i \in (Len(ops[p]) + 1)..Len(ops'[p]) :
                      ops'[p][i].op \in CleanupOps]_vars

\* a run whose install command failed and that has returned
C2_Witness ==
    \E p \in Procs :
        /\ pc[p] = "done" /\ IsError(ret[p])
        /\ \E i \in Indices(ops[p]) :
              /\ Failed(ops[p][i]) /\ ops[p][i].cmd = "install"
              /\ i < Len(ops[p])
        /\ cfg[p].removeS /\ cfg[p].copy # <<>>

\* ------------------------------------------------------------------------
\* C3: the working container is deleted exactly once unless kept
\* ------------------------------------------------------------------------

\* C3: with keep the deletion is never attempted; without it, it is attempted
\* at most once, and exactly once by the time Execute has returned from a run
\* that created the container.
C3_DeleteOnce ==
    \A p \in Procs :
        LET log == ops[p] IN
        /\ cfg[p].keep => Count(log, "delete") = 0
        /\ Count(log, "delete") <= 1
        /\ (pc[p] = "done" /\ HasOk(log, "create") /\ ~cfg[p].keep)
              => Count(log, "delete") = 1

\* a failed run without keep that has deleted its container
C3_Witness ==
    \E p \in Procs :
        /\ pc[p] = "done" /\ IsError(ret[p]) /\ ~cfg[p].keep
        /\ HasOk(ops[p], "create") /\ Count(ops[p], "delete") = 1

\* ------------------------------------------------------------------------
\* C4: the outcome of the deletion does not change the result
\* ------------------------------------------------------------------------

\* C4: once Execute has returned after creating the container, it returned
\* nil exactly when no operation of a step failed and the commit succeeded,
\* whether the deletion succeeded or not.
C4_CleanupOutcomeIgnored ==
    \A p \in Procs :
        (pc[p] = "done" /\ HasOk(ops[p], "create")) =>
            ((ret[p] = Nil) <=>
                /\ HasOk(ops[p], "commit")
                /\ \A i \in Indices(ops[p]) : ~Failed(ops[p][i]))

\* a successful run whose container could not be deleted
C4_Witness ==
    \E p \in Procs :
        /\ pc[p] = "done" /\ ret[p] = Nil
        /\ \E i \in Indices(ops[p]) : ops[p][i].op = "delete" /\ ~ops[p][i].ok

\* ------------------------------------------------------------------------
\* C5: an existing target image stops the build unless forced
\* ------------------------------------------------------------------------

\* the store answered that the target image exists
SawExisting(log) ==
    \E i \in Indices(log) : log[i].op = "exists" /\ log[i].ok

\* C5: a run without force that found the target image returns the error
\* naming the reference it looked up, having created no container, run no
\* command and committed nothing; a run with force never returns that error.
C5_ExistingImage ==
    \A p \in Procs :
        SawExisting(ops[p]) =>
            IF ~cfg[p].force
            THEN /\ ret[p] = Error(<<"image already exists",
                                     cfg[p].repository \o ":" \o cfg[p].tag>>)
                 /\ \A i \in Indices(ops[p]) :
                       ops[p][i].op \in {"exists"} \cup CleanupOps
                 /\ Count(ops[p], "delete") = 0
                 /\ ctr[p] = NoContainer
            ELSE /\ ~(IsError(ret[p]) /\ ret[p][2] = "image already exists")
                 /\ pc[p] \notin {"start", "create"} => Has(ops[p], "create")

\* a run without force that found the image and has returned
C5_Witness ==
    \E p \in Procs :
        /\ SawExisting(ops[p]) /\ ~cfg[p].force /\ pc[p] = "done"

\* a forced run that found the image and committed over it
C5_ForcedWitness ==
    \E p \in Procs :
        /\ SawExisting(ops[p]) /\ cfg[p].force /\ ret[p] = Nil
        /\ store.tags[Reference(cfg[p])] = ImageOf(p)

\* ------------------------------------------------------------------------
\* C6: the existence check and the commit are not atomic
\* ------------------------------------------------------------------------

\* both runs, neither forced, looked the same absent target up and committed
BothCommitted ==
    /\ \A p, q \in Procs : Reference(cfg[p]) = Reference(cfg[q])
    /\ \A p \in Procs :
          /\ ~cfg[p].force
          /\ \E i \in Indices(ops[p]) : ops[p][i].op = "exists" /\ ~ops[p][i].ok
          /\ HasOk(ops[p], "commit")

\* C6: when two unforced runs on the same absent target both pass the check
\* and both commit, neither returns an error and the tag names the image of
\* the run that committed last.
C6_LastCommitWins ==
    BothCommitted =>
        /\ \A p \in Procs : ret[p] = Nil
        /\ Len(store.journal) = Cardinality(Procs)
        /\ \A p \in Procs :
              store.tags[Reference(cfg[p])] = ImageOf(store.journal[Len(store.journal)])

\* both runs have returned after both committing
C6_Witness ==
    /\ BothCommitted
    /\ \A p \in Procs : pc[p] = "done"
    /\ store.journal = <<"B", "A">>

\* ------------------------------------------------------------------------
\* C7: capabilities are granted per command
\* ------------------------------------------------------------------------

\* the capabilities the command factory of run c declares for the command of
\* entry e; chmod and the helper probe have no factory: the sweep declares
\* chmod's set itself and the probe has none
DeclaredCapabilities(c, e) ==
    CASE e.cmd = "update-index" -> NewUpdateIndexCmd(c.package).capabilities
      [] e.cmd = "install" -> NewInstallCmd(c.package, c.install).capabilities
      [] e.cmd = "upgrade" -> NewUpgradeCmd(c.package).capabilities
      [] e.cmd = "clean-cache" -> NewCleanCacheCmd(c.package).capabilities
      [] e.cmd = "create-user" ->
            NewCreateUserCmd(c.userBackend, c.user[1].Name,
                             CreateUserOptions(c.user[1])).capabilities
      [] e.cmd = "add-to-group" ->
            NewAddUserToGroupCmd(c.userBackend, c.user[1].Name, e.argv[3]).capabilities
      [] e.cmd = "find" -> NewFindSpecialCmd(c.find).capabilities
      [] e.cmd = "chmod" -> <<"CAP_DAC_READ_SEARCH", "CAP_FOWNER">>
      [] OTHER -> <<>>

\* entry i of the log is useradd run after a successful probe for sss_cache
AfterHelperFound(log, i) ==
    /\ log[i].cmd = "create-user" /\ log[i].argv[1] = "useradd"
    /\ i > 1 /\ log[i - 1].cmd = "resolve" /\ log[i - 1].ok

\* C7 as claimed: every command is run with exactly the capabilities its
\* command factory declares for it.
C7_DeclaredCapabilitiesOnly ==
    \A p \in Procs : \A i \in Indices(ops[p]) :
        ops[p][i].op = "run" =>
            Range(ops[p][i].caps) = Range(DeclaredCapabilities(cfg[p], ops[p][i]))

\* C7 as amended: every command is run with exactly the capabilities its
\* command factory declares for it, except useradd after sss_cache was
\* resolved, which is run with the declared ones, CAP_SETGID and CAP_SETUID.
C7_CapabilitiesPerCommand ==
    \A p \in Procs : \A i \in Indices(ops[p]) :
        ops[p][i].op = "run" =>
            Range(ops[p][i].caps) =
                Range(DeclaredCapabilities(cfg[p], ops[p][i]))
                \cup (IF AfterHelperFound(ops[p], i)
                      THEN {"CAP_SETGID", "CAP_SETUID"} ELSE {})

\* adduser ran with its capabilities and addgroup after it with none
C7_Witness ==
    \E p \in Procs : \E i, j \in Indices(ops[p]) :
        /\ i < j
        /\ ops[p][i].cmd = "create-user" /\ ops[p][i].caps # <<>>
        /\ ops[p][j].cmd = "add-to-group" /\ ops[p][j].caps = <<>>
        /\ \E k \in Indices(ops[p]) : ops[p][k].cmd = "chmod"

\* ------------------------------------------------------------------------
\* C8: networking is enabled for package installation only
\* ------------------------------------------------------------------------

NetworkedCommands == {"install", "upgrade", "update-index"}

\* C8: every command run in a container, by a step of Execute or by a method
\* of a package frontend, runs with networking enabled when it is an install,
\* upgrade or update-index command, and with networking disabled otherwise:
\* clean-cache, list, resolve, create-user, add-to-group, find and chmod.
C8_NetworkPolicy ==
    \A p \in Procs : \A i \in Indices(ops[p]) :
        ops[p][i].op = "run" =>
            ops[p][i].net = IF ops[p][i].cmd \in NetworkedCommands
                            THEN "NetworkEnabled" ELSE "NetworkDisabled"

\* one run refreshed the index, upgraded, installed, cleaned, probed, created
\* a user, searched and changed modes, and beside it List ran apt-cache
\* with networking disabled
C8_Witness ==
    \E p, q \in Procs :
        /\ {"update-index", "upgrade", "install", "clean-cache", "resolve",
            "create-user", "find", "chmod"} \subseteq Range(Names(ops[p]))
        /\ \E i \in Indices(ops[p]) :
              ops[p][i].cmd = "install" /\ ops[p][i].net = "NetworkEnabled"
        /\ pc[q] = "listed"
        /\ \E i \in Indices(ops[q]) :
              /\ ops[q][i].cmd = "list" /\ ops[q][i].op = "run"
              /\ ops[q][i].argv = <<"apt-cache", "pkgnames">>
              /\ ops[q][i].net = "NetworkDisabled"

\* ------------------------------------------------------------------------
\* C9: the capabilities of useradd depend on the helper probe
\* ------------------------------------------------------------------------

ShadowBase == {"CAP_CHOWN", "CAP_DAC_OVERRIDE", "CAP_FOWNER"}

\* C9: on shadow-utils the probe for sss_cache is always followed by the
\* create-user command; that command runs with exactly CAP_CHOWN,
\* CAP_DAC_OVERRIDE and CAP_FOWNER when the probe failed, and with these,
\* CAP_SETGID and CAP_SETUID when it succeeded.
C9_ShadowCapabilities ==
    \A p \in Procs :
        LET log == OfStep(ops[p], "user") IN
        cfg[p].userBackend = "Shadow" =>
            /\ Names(log) \in {<<>>, <<"resolve">>, <<"resolve", "create-user">>}
            /\ NotAt(p, "user") => Len(log) # 1
            /\ log # <<>> => log[1].argv = <<"command", "-v", "sss_cache">>
            /\ Len(log) = 2 =>
                  /\ log[2].argv[1] = "useradd"
                  /\ ~log[1].ok => Range(log[2].caps) = ShadowBase
                  /\ log[1].ok =>
                        Range(log[2].caps) = ShadowBase \cup {"CAP_SETGID", "CAP_SETUID"}

\* useradd ran although sss_cache was not resolvable
C9_Witness ==
    \E p \in Procs : \E i \in Indices(ops[p]) :
        /\ i > 1 /\ ops[p][i].cmd = "create-user" /\ ops[p][i].argv[1] = "useradd"
        /\ ops[p][i - 1].cmd = "resolve" /\ ~ops[p][i - 1].ok

\* useradd ran after sss_cache was resolved
C9_FoundWitness ==
    \E p \in Procs : \E i \in Indices(ops[p]) :
        AfterHelperFound(ops[p], i) /\ "CAP_SETUID" \in Range(ops[p][i].caps)

\* ------------------------------------------------------------------------
\* C10: APT refreshes its index before installing and upgrading
\* ------------------------------------------------------------------------

APTCapabilities ==
    {"CAP_CHOWN", "CAP_DAC_OVERRIDE", "CAP_FOWNER", "CAP_SETGID", "CAP_SETUID"}

\* the commands a package step has run, for the command `name` of the step
IndexThenCommand(log, name, over) ==
    /\ Names(log) \in {<<>>, <<"update-index">>, <<"update-index", name>>}
    /\ (over /\ Len(log) = 1) => ~log[1].ok
    /\ Len(log) = 2 => log[1].ok
    /\ \A i \in Indices(log) :
          /\ log[i].net = "NetworkEnabled"
          /\ Range(log[i].caps) = APTCapabilities
    /\ Len(log) >= 1 => log[1].argv = <<"apt", "--quiet", "update">>

\* C10: on APT the install and the upgrade step each run update-index and,
\* only when it succeeded, their own command, both with networking enabled
\* and APT's capabilities; on every other backend they run one command and
\* never update-index.
C10_IndexRefresh ==
    \A p \in Procs :
        LET inst == OfStep(ops[p], "install")
            upg == OfStep(ops[p], "upgrade")
        IN  IF cfg[p].package = "APT"
            THEN /\ IndexThenCommand(inst, "install", NotAt(p, "install"))
                 /\ IndexThenCommand(upg, "upgrade", NotAt(p, "upgrade"))
                 /\ (ret[p] = Nil /\ cfg[p].install # <<>>) => Len(inst) = 2
                 /\ (ret[p] = Nil /\ cfg[p].upgrade) => Len(upg) = 2
            ELSE /\ Names(inst) \in {<<>>, <<"install">>}
                 /\ Names(upg) \in {<<>>, <<"upgrade">>}
                 /\ (ret[p] = Nil /\ cfg[p].install # <<>>) => Len(inst) = 1
                 /\ (ret[p] = Nil /\ cfg[p].upgrade) => Len(upg) = 1

\* an APT run that refreshed the index twice, upgraded and installed
C10_Witness ==
    \E p \in Procs :
        /\ cfg[p].package = "APT"
        /\ Names(OfStep(ops[p], "upgrade")) = <<"update-index", "upgrade">>
        /\ Names(OfStep(ops[p], "install")) = <<"update-index", "install">>

\* an APT run whose index refresh failed before installing
C10_FailedRefreshWitness ==
    \E p \in Procs :
        /\ cfg[p].package = "APT" /\ pc[p] = "done"
        /\ Names(OfStep(ops[p], "install")) = <<"update-index">>

\* ------------------------------------------------------------------------
\* C11: installing an empty package list
\* ------------------------------------------------------------------------

\* C11 as claimed: Install called with an empty package list runs nothing in
\* the container and returns nil.
C11_EmptyInstallNoOp ==
    \A p \in Procs :
        (pc[p] = "installed" /\ cfg[p].install = <<>>) =>
            /\ ops[p] = <<>>
            /\ ret[p] = Nil

\* Install returned after being called with an empty list on APT, having run
\* update-index and the install command without a package
C11_Witness ==
    \E p \in Procs :
        /\ pc[p] = "installed" /\ cfg[p].install = <<>> /\ cfg[p].package = "APT"
        /\ Names(ops[p]) = <<"update-index", "install">>
        /\ ops[p][2].argv = <<"apt", "--quiet", "--yes", "install">>

\* ------------------------------------------------------------------------
\* C12: cleaning the caches of a backend that has none
\* ------------------------------------------------------------------------

\* C12 as claimed: the clean step runs nothing in the container when the
\* backend's clean-cache command is empty, and otherwise runs exactly that
\* command with its declared capabilities and networking disabled.
C12_CleanCachesNoOp ==
    \A p \in Procs :
        LET log == OfStep(ops[p], "clean") IN
        cfg[p].package \in PackageBackends =>
            LET d == NewCleanCacheCmd(cfg[p].package) IN
            IF d.cmd = <<>>
            THEN log = <<>>
            ELSE /\ Len(log) <= 1
                 /\ \A i \in Indices(log) :
                       /\ log[i].argv = d.cmd
                       /\ log[i].caps = d.capabilities
                       /\ log[i].net = "NetworkDisabled"

\* the clean step of an APK run has handed an empty argument vector to the
\* container runtime
C12_Witness ==
    \E p \in Procs :
        /\ cfg[p].package = "APK" /\ cfg[p].clean
        /\ \E i \in Indices(ops[p]) :
              /\ ops[p][i].op = "run" /\ ops[p][i].cmd = "clean-cache"
              /\ ops[p][i].argv = <<>>

\* ------------------------------------------------------------------------
\* C13: BusyBox creates the user and then adds it to its groups, one by one
\* ------------------------------------------------------------------------

\* the commands the claim expects for user u: adduser, addgroup for the
\* user's own group when UserGroup is set, addgroup for each entry of Groups
ClaimedUserCommands(u) ==
    <<BusyBoxNewCreateUserCmd(u.Name, CreateUserOptions(u)).cmd>>
    \o (IF u.UserGroup THEN << <<"addgroup", u.Name, u.Name>> >> ELSE <<>>)
    \o [i \in 1..Len(u.Groups) |-> <<"addgroup", u.Name, u.Groups[i]>>]

\* the user step is over: it failed, or a later operation was issued
UserStepOver(p) ==
    \/ pc[p] \in {"deferred", "done"}
    \/ \E i \in Indices(ops[p]) : Rank(ops[p][i].step) > Rank("user")

\* C13: on BusyBox the commands of the user step are, in order, a prefix of
\* adduser, addgroup(user, user) iff UserGroup, addgroup(user, g) for each g
\* of Groups in list order; only the last command issued can have failed,
\* nothing else is run in the step, and a step that ran is complete unless
\* its last command failed.
C13_BusyBoxSequence ==
    \A p \in Procs :
        LET log == OfStep(ops[p], "user") IN
        (cfg[p].userBackend = "BusyBox" /\ cfg[p].user # <<>>) =>
            LET claimed == ClaimedUserCommands(cfg[p].user[1]) IN
            /\ Len(log) <= Len(claimed)
            /\ [i \in Indices(log) |-> log[i].argv] = Prefix(claimed, Len(log))
            /\ \A i \in Indices(log) : log[i].op = "run" /\ (i < Len(log) => log[i].ok)
            /\ (log # <<>> /\ ~log[Len(log)].ok) =>
                  /\ IsError(ret[p])
                  /\ \A i \in Indices(ops[p]) :
                        Rank(ops[p][i].step) > Rank("user") => ops[p][i].op \in CleanupOps
            /\ (log # <<>> /\ UserStepOver(p) /\ log[Len(log)].ok) =>
                  Len(log) = Len(claimed)

\* adduser and the addgroup for the user's own group succeeded, the addgroup
\* for the second of two groups failed, and the run has returned
C13_Witness ==
    \E p \in Procs :
        LET log == OfStep(ops[p], "user") IN
        /\ cfg[p].userBackend = "BusyBox" /\ cfg[p].user # <<>> /\ pc[p] = "done"
        /\ cfg[p].user[1].UserGroup /\ Len(cfg[p].user[1].Groups) = 2
        /\ Len(log) = 4 /\ ~log[4].ok /\ log[4].argv = <<"addgroup", "dev", "video">>

\* every command of a BusyBox user with its own group and two groups succeeded
C13_CompleteWitness ==
    \E p \in Procs :
        LET log == OfStep(ops[p], "user") IN
        /\ cfg[p].userBackend = "BusyBox" /\ cfg[p].user # <<>> /\ ret[p] = Nil
        /\ cfg[p].user[1].UserGroup /\ Len(cfg[p].user[1].Groups) = 2
        /\ Len(log) = 4

\* ------------------------------------------------------------------------
\* C14: shadow-utils folds the groups into useradd
\* ------------------------------------------------------------------------

\* the commands of a log that are not the probe for a helper
Commands(log) == SelectSeq(log, LAMBDA e : e.cmd # "resolve")

\* C14: on shadow-utils the user step runs, besides the probe, at most one
\* command, which is useradd carrying the groups in its own arguments; no
\* empty argument vector is run, and a step that did not fail ran useradd
\* exactly once.
C14_ShadowSingleCommand ==
    \A p \in Procs :
        LET log == Commands(OfStep(ops[p], "user")) IN
        (cfg[p].userBackend = "Shadow" /\ cfg[p].user # <<>>) =>
            LET u == cfg[p].user[1] IN
            /\ Len(log) <= 1
            /\ \A i \in Indices(log) :
                  /\ log[i].argv # <<>>
                  /\ log[i].argv[1] = "useradd"
                  /\ log[i].argv[Len(log[i].argv)] = u.Name
                  /\ u.UserGroup <=> "--user-group" \in Range(log[i].argv)
                  /\ u.Groups # <<>> <=> "--groups" \in Range(log[i].argv)
            /\ \A i \in Indices(ops[p]) :
                  ops[p][i].step = "user" => ops[p][i].argv # <<>>
            /\ (UserStepOver(p) /\ OfStep(ops[p], "user") # <<>>) => Len(log) = 1

\* a shadow-utils user with its own group and two groups was created by
\* useradd alone, and the run succeeded
C14_Witness ==
    \E p \in Procs :
        /\ cfg[p].userBackend = "Shadow" /\ cfg[p].user # <<>> /\ ret[p] = Nil
        /\ cfg[p].user[1].UserGroup /\ Len(cfg[p].user[1].Groups) = 2
        /\ Len(Commands(OfStep(ops[p], "user"))) = 1
        /\ "wheel,video" \in Range(Commands(OfStep(ops[p], "user"))[1].argv)

\* ------------------------------------------------------------------------
\* C15: the error of a failed add-to-group
\* ------------------------------------------------------------------------

\* C15 as claimed: when the add-to-group command for group g fails, the
\* error Execute returns names g.
C15_ErrorNamesGroup ==
    \A p \in Procs : \A i \in Indices(ops[p]) :
        (ops[p][i].cmd = "add-to-group" /\ ~ops[p][i].ok) =>
            /\ IsError(ret[p])
            /\ ops[p][i].argv[3] \in Range(ret[p])

\* the addgroup for the second of two groups failed without a word on its
\* standard error, and the error returned is the same as for any group
C15_Witness ==
    \E p \in Procs : \E i \in Indices(ops[p]) :
        /\ ops[p][i].argv = <<"addgroup", "dev", "video">> /\ ~ops[p][i].ok
        /\ pc[p] = "done"
        /\ ret[p] = Error(<<"creating nonroot user",
                            "adding user to group using BusyBox", "exit status">>)

\* ------------------------------------------------------------------------
\* C16: chmod is run on the paths found that are not excluded
\* ------------------------------------------------------------------------

\* the paths of an output of find
PathsOf(out) == SelectSeq(out, LAMBDA t : t \notin WhiteSpace)

\* an output of N paths, N >= 0: every path is followed by a line terminator
\* and nothing else is printed
OutputOfPaths(out) ==
    /\ Len(out) % 2 = 0
    /\ \A i \in 1..Len(out) :
          IF i % 2 = 1 THEN out[i] \notin WhiteSpace ELSE out[i] \in {LF, CRLF}

\* the paths of a sequence that are not in the exclude list, in order
NotExcluded(paths, excludes) == SelectSeq(paths, LAMBDA t : t \notin Range(excludes))

\* C16: when find has printed N paths of which M are excluded, the sweep runs
\* chmod once, on exactly the N - M other paths in the order found, when
\* N - M > 0, and does not run chmod when N - M = 0; a sweep whose commands
\* succeeded lets the pipeline go on.
C16_ChmodOnRemaining ==
    \A p \in Procs :
        LET log == OfStep(ops[p], "sweep")
            chmods == SelectSeq(log, LAMBDA e : e.cmd = "chmod")
        IN  /\ Len(chmods) <= 1
            /\ (log # <<>> /\ log[1].ok /\ OutputOfPaths(log[1].out)) =>
                  LET paths == PathsOf(log[1].out)
                      rest == NotExcluded(paths, cfg[p].excludes)
                      N == Len(paths)
                      M == Cardinality(Range(paths) \cap Range(cfg[p].excludes))
                  IN  /\ Len(rest) = N - M
                      /\ IF N - M = 0
                         THEN /\ chmods = <<>>
                              /\ ~(IsError(ret[p]) /\ ret[p][2] =
                                      "removing SUID and SGID bits from files")
                         ELSE /\ NotAt(p, "sweep") => Len(chmods) = 1
                              /\ \A i \in Indices(chmods) :
                                    /\ chmods[i].argv = <<"chmod", "-s">> \o rest
                                    /\ Len(chmods[i].argv) = 2 + N - M

\* find printed two paths, one of them excluded, and chmod ran on the other
C16_Witness ==
    \E p \in Procs :
        LET log == OfStep(ops[p], "sweep") IN
        /\ Len(log) = 2 /\ Len(PathsOf(log[1].out)) = 2
        /\ cfg[p].excludes = <<"/bin/su">>
        /\ log[2].argv = <<"chmod", "-s", "/usr/bin/passwd">> /\ log[2].ok

\* find printed one path, which is excluded, and the run succeeded without
\* running chmod
C16_NothingLeftWitness ==
    \E p \in Procs :
        LET log == OfStep(ops[p], "sweep") IN
        /\ Len(log) = 1 /\ log[1].out = <<"/bin/su", LF>>
        /\ cfg[p].excludes = <<"/bin/su">> /\ ret[p] = Nil

\* ------------------------------------------------------------------------
\* C17: the sweep and /home
\* ------------------------------------------------------------------------

\* C17 as claimed: the find command of every backend prunes /home, find
\* reports no path under /home and chmod is given none.
C17_HomePruned ==
    \A p \in Procs : \A i \in Indices(ops[p]) :
        /\ ops[p][i].cmd = "find" =>
              /\ PrunesHome(ops[p][i].argv)
              /\ Range(ops[p][i].out) \cap HomePaths = {}
        /\ ops[p][i].cmd = "chmod" => Range(ops[p][i].argv) \cap HomePaths = {}

\* GNU find searched / without pruning /home, printed a file under /home and
\* chmod -s was run on it
C17_Witness ==
    \E p \in Procs : \E i, j \in Indices(ops[p]) :
        /\ ops[p][i].argv = <<"find", "/", "-xdev", "-perm", "/u=s,g=s">>
        /\ ops[p][j].cmd = "chmod" /\ ops[p][j].ok
        /\ "/home/dev/.local/bin/helper" \in Range(ops[p][j].argv)

\* ------------------------------------------------------------------------
\* C18: only Linux images are built upon
\* ------------------------------------------------------------------------

\* the operations that work in or on the image: commands, copies,
\* configuration and commit
BuildOps == {"run", "add", "configure", "commit"}

\* C18: a run whose working container reports an OS other than linux has
\* stopped with the error naming that OS, and a run that returns that error
\* has run no command, copied no file, configured and committed nothing: no
\* reference of the store names its image.
C18_NonLinuxStops ==
    \A p \in Procs :
        /\ ctr[p].os \notin {"", "linux"} =>
              /\ pc[p] \in {"deferred", "done"}
              /\ ret[p] = Error(<<"expected 'linux' image", ctr[p].os>>)
        /\ (ctr[p].os \notin {"", "linux"}
              \/ (IsError(ret[p]) /\ ret[p][2] = "expected 'linux' image")) =>
              /\ \A i \in Indices(ops[p]) : ops[p][i].op \notin BuildOps
              /\ \A r \in DOMAIN store.tags : store.tags[r] # ImageOf(p)

\* a run on a Windows image has returned the error after deleting the
\* container, although the spec asked for packages, a user and copies
C18_Witness ==
    \E p \in Procs :
        /\ pc[p] = "done"
        /\ ret[p] = Error(<<"expected 'linux' image", "windows">>)
        /\ HasOk(ops[p], "create") /\ HasOk(ops[p], "delete")
        /\ cfg[p].install # <<>> /\ cfg[p].user # <<>> /\ cfg[p].copy # <<>>

\* ------------------------------------------------------------------------
\* C19: configuration errors are found before the container is created
\* ------------------------------------------------------------------------

\* the spec names no backend on some axis, once the defaults are filled in
ConfigError(c) ==
    LET s == Fill(c) IN Unknown \in {s.package, s.userBackend, s.find}

\* C19: a run whose spec has no backend on some axis is stopped when the
\* spec is loaded: it issues no operation at all, has no working container,
\* returns the validation error, or the error of reading the file when the
\* file could not be read, and does nothing afterwards.
C19_ConfigErrorFirst ==
    /\ [](\A p \in Procs :
            ConfigError(cfg[p]) =>
                /\ ops[p] = <<>>
                /\ ctr[p] = NoContainer
                /\ pc[p] \in {"load", "done"}
                /\ pc[p] = "done" =>
                      /\ IsError(ret[p])
                      /\ ret[p][3] \in {"validating spec", "reading spec file"})
    /\ [][\A p \in Procs :
            (ConfigError(cfg[p]) /\ pc[p] = "done") =>
                (pc'[p] = pc[p] /\ ops'[p] = ops[p] /\ ret'[p] = ret[p])]_vars

\* a spec without a distro and without backends was refused
C19_Witness ==
    \E p \in Procs :
        /\ ConfigError(cfg[p]) /\ pc[p] = "done"
        /\ cfg[p].package = Unknown /\ cfg[p].userBackend = Unknown
        /\ cfg[p].find = Unknown
        /\ ret[p] = Error(<<"creating in-memory representation of spec",
                            "validating spec", "missing distro">>)

\* ------------------------------------------------------------------------
\* C20: a failed command is neither swallowed nor retried
\* ------------------------------------------------------------------------

\* entry i of the log is a command of a step that exited non-zero
FailedCommand(log, i) ==
    log[i].op = "run" /\ log[i].cmd # "resolve" /\ ~log[i].ok

\* C20: when a command of a step exits non-zero, Execute returns an error
\* that ends with the command's failure, the command is the last one run,
\* and the step never issues it again.
C20_NoSwallowNoRetry ==
    \A p \in Procs : \A i \in Indices(ops[p]) :
        FailedCommand(ops[p], i) =>
            /\ IsError(ret[p])
            /\ ret[p][Len(ret[p])] = "exit status"
            /\ pc[p] \in {"deferred", "done"}
            /\ \A j \in Indices(ops[p]) : j > i => ops[p][j].op # "run"
            /\ \A j \in Indices(ops[p]) :
                  (j # i /\ ops[p][j].step = ops[p][i].step) =>
                      ops[p][j].argv # ops[p][i].argv

\* chmod failed with a message on its standard error after find succeeded,
\* and the run has returned the wrapped error
C20_Witness ==
    \E p \in Procs : \E i \in Indices(ops[p]) :
        /\ FailedCommand(ops[p], i) /\ ops[p][i].cmd = "chmod" /\ pc[p] = "done"
        /\ ret[p] = Error(<<"removing SUID and SGID bits from files",
                            "unsetting special bit", "permission denied",
                            "exit status">>)

\* ------------------------------------------------------------------------
\* C21: the login shell
\* ------------------------------------------------------------------------

\* the reasons Execute gives for returning before it creates the user
EarlierContexts ==
    {"creating store", "image already exists", "creating Buildah builder",
     "expected 'linux' image", "creating package management interface",
     "creating user management interface", "creating find command factory",
     "upgrading packages", "installing packages", "cleaning package caches"}

\* the look-ups of the login shell of spec c in a log
ShellLookups(log, c) ==
    {i \in Indices(log) : /\ log[i].cmd = "resolve"
                          /\ log[i].argv = <<"command", "-v", c.loginShell>>}

\* C21: a build that asks for a login shell looks the shell up in the
\* container before it issues the user-creation command, user creation is
\* given the shell when the look-up succeeds, and is never issued, the build
\* failing, when it does not; a finished build that never looked the shell up
\* failed in an earlier step of the pipeline
C21_LoginShellResolved ==
    \A p \in Procs :
        (pc[p] = "done" /\ cfg[p].loginShell # "" /\ cfg[p].user # <<>>) =>
            LET log == ops[p]
                lookups == ShellLookups(log, cfg[p])
                creations == {i \in Indices(log) : log[i].cmd = "create-user"}
            IN  IF lookups = {}
                THEN /\ creations = {}
                     /\ IsError(ret[p])
                     /\ ret[p][2] \in EarlierContexts
                ELSE \A i \in lookups :
                        IF log[i].ok
                        THEN \A j \in creations :
                                /\ i < j
                                /\ \E k \in 1..Len(log[j].argv) :
                                      log[j].argv[k] \in {"--shell", "-s"}
                        ELSE creations = {} /\ IsError(ret[p])

\* a build that asked for the login shell fish has returned
C21_Witness ==
    /\ pc["A"] = "done"
    /\ cfg["A"].loginShell = "fish"
    /\ cfg["A"].user # <<>>
    /\ ret["A"] = Error(<<"creating in-memory representation of spec",
                          "decoding TOML",
                          "strict mode: fields in the document are missing in the target struct">>)
    /\ ops["A"] = <<>>

\* ------------------------------------------------------------------------
\* C22: the options of the commit
\* ------------------------------------------------------------------------

\* the commits of a log
CommitsOf(log) == {i \in Indices(log) : log[i].op = "commit"}

\* C22: the commit is made under repository:tag and, when nobody else
\* commits, a successful commit leaves that reference naming the new image;
\* without keep-history the commit is squashed and its history timestamp is
\* the zero time; with keep-history it is neither squashed nor given the zero
\* time, and the history is not omitted
C22_CommitOptions ==
    \A p \in Procs : \A i \in CommitsOf(ops[p]) :
        LET e == ops[p][i]
            co == e.co[1]
            c == cfg[p]
        IN  /\ e.argv = <<c.repository \o ":" \o c.tag>>
            /\ (e.ok /\ (\A q \in Procs \ {p} : pc[q] = "off")) =>
                  store.tags[c.repository \o ":" \o c.tag] = ImageOf(p)
            /\ ~c.keepHistory => (co.Squash /\ co.HistoryTimestamp = <<ZeroTime>>)
            /\ c.keepHistory =>
                  (~co.Squash /\ co.HistoryTimestamp # <<ZeroTime>> /\ ~co.OmitHistory)

\* an image was committed with keep-history set
C22_Witness ==
    /\ cfg["A"].keepHistory
    /\ \E i \in CommitsOf(ops["A"]) :
          /\ ops["A"][i].ok
          /\ ops["A"][i].co[1].Squash
          /\ ops["A"][i].co[1].HistoryTimestamp = <<>>
    /\ store.tags["example/img:v1"] = "image-A"

\* ------------------------------------------------------------------------
\* C23: the Fedora scenario from end to end
\* ------------------------------------------------------------------------

\* the builds of the scenario: Fedora, packages = ["git"], the user dev with
\* a group of its own, and nothing else
Scenario(p) ==
    /\ cfg[p].distro = "Fedora"
    /\ cfg[p].install = <<"git">>
    /\ cfg[p].user = <<NewUser(0, TRUE, <<>>, <<>>, FALSE)>>
    /\ ~cfg[p].upgrade /\ ~cfg[p].clean /\ cfg[p].copy = <<>> /\ ~cfg[p].removeS
    /\ ~cfg[p].keep

\* the calls and commands of a log, in the order they were issued
Trace(log) == [i \in Indices(log) |-> <<log[i].op, log[i].cmd>>]

\* the claim as stated holds of a successful scenario build only if setting
\* the primary group is an operation of its own that follows user creation
C23_ScenarioAsStated ==
    \A p \in Procs :
        (Scenario(p) /\ pc[p] = "done" /\ ret[p] = Nil) =>
            \E i, j \in Indices(ops[p]) :
                /\ i < j
                /\ ops[p][i].cmd = "create-user"
                /\ ops[p][j].cmd = "add-to-group"
                /\ ops[p][j].argv[Len(ops[p][j].argv)] = "dev"

\* C23: a successful build of the scenario has issued exactly: the existence
\* check, the creation of the container (whose OS is linux), dnf install git
\* with networking enabled and the capabilities CAP_CHOWN, CAP_DAC_OVERRIDE
\* and CAP_SETFCAP, the probe for sss_cache, useradd --user-group dev (the
\* one command that creates the user and its primary group), the
\* configuration, the commit, the deletion of the container and the shutdown
\* of the store, in this order; the committed image has a non-empty ID
C23_Scenario ==
    \A p \in Procs :
        Scenario(p) =>
            LET log == ops[p] IN
            /\ (Has(log, "run") /\ ctr[p] # NoContainer) => ctr[p].os = "linux"
            /\ (pc[p] = "done" /\ ret[p] = Nil) =>
                  /\ Trace(log) =
                        << <<"exists", "">>, <<"create", "">>, <<"run", "install">>,
                           <<"run", "resolve">>, <<"run", "create-user">>,
                           <<"configure", "">>, <<"commit", "">>,
                           <<"delete", "">>, <<"shutdown", "">> >>
                  /\ log[3].argv = <<"dnf", "--assumeyes", "--quiet",
                                     "--setopt=install_weak_deps=False", "install", "git">>
                  /\ log[3].net = "NetworkEnabled"
                  /\ log[3].caps = <<"CAP_CHOWN", "CAP_DAC_OVERRIDE", "CAP_SETFCAP">>
                  /\ log[5].argv = <<"useradd", "--user-group", "dev">>
                  /\ log[7].argv = <<"example/img:v1">> /\ log[7].ok
                  /\ (\A q \in Procs \ {p} : pc[q] = "off") =>
                        store.tags["example/img:v1"] \notin {"", NoImage}

\* the scenario has been built
C23_Witness ==
    /\ Scenario("A")
    /\ pc["A"] = "done" /\ ret["A"] = Nil
    /\ Len(ops["A"]) = 9
    /\ store.tags["example/img:v1"] = "image-A"

\* ------------------------------------------------------------------------
\* Backend identifiers: values, display strings, parsing, factories
\* ------------------------------------------------------------------------

\* the constant blocks (1 << iota); the zero value is no constant
PckgBackend == [APK |-> 1, APT |-> 2, DNF |-> 4, Pacman |-> 8, XBPS |-> 16, Zypper |-> 32]

UserBackend == [BusyBox |-> 1, Shadow |-> 2]

FindBackend == [BSD |-> 1, BusyBox |-> 2, GNU |-> 4]

\* the value of the identifier a default lookup returns; 0 for the zero value
ValueOf(constants, id) == IF id \in DOMAIN constants THEN constants[id] ELSE 0

\* pckg.Backend.String
PckgString(b) ==
    CASE b = PckgBackend.APK -> <<"A", "P", "K">>
      [] b = PckgBackend.APT -> <<"A", "P", "T">>
      [] b = PckgBackend.DNF -> <<"D", "N", "F">>
      [] b = PckgBackend.Pacman -> <<"P", "a", "c", "m", "a", "n">>
      [] b = PckgBackend.XBPS -> <<"X", "B", "P", "S">>
      [] b = PckgBackend.Zypper -> <<"Z", "y", "p", "p", "e", "r">>
      [] OTHER -> <<"u", "n", "k", "n", "o", "w", "n">>

\* pckg.parseBackendString
PckgParseBackendString(s) ==
    LET l == ToLower(s) IN
    CASE l = <<"a", "p", "k">> -> <<"ok", PckgBackend.APK>>
      [] l = <<"a", "p", "t">> -> <<"ok", PckgBackend.APT>>
      [] l = <<"d", "n", "f">> -> <<"ok", PckgBackend.DNF>>
      [] l = <<"p", "a", "c", "m", "a", "n">> -> <<"ok", PckgBackend.Pacman>>
      [] l = <<"x", "b", "p", "s">> -> <<"ok", PckgBackend.XBPS>>
      [] l = <<"z", "y", "p", "p", "e", "r">> -> <<"ok", PckgBackend.Zypper>>
      [] OTHER -> Error(<<"unsupported package manager">>)

\* a constructor that falls back to the APK factory
MutPckgNewCommandFactory(b) ==
    CASE b = PckgBackend.APK -> <<"ok", "APKCommandFactory">>
      [] b = PckgBackend.APT -> <<"ok", "APTCommandFactory">>
      [] b = PckgBackend.DNF -> <<"ok", "DNFCommandFactory">>
      [] b = PckgBackend.Pacman -> <<"ok", "PacmanCommandFactory">>
      [] b = PckgBackend.XBPS -> <<"ok", "XBPSCommandFactory">>
      [] b = PckgBackend.Zypper -> <<"ok", "ZypperCommandFactory">>
      [] OTHER -> <<"ok", "APKCommandFactory">>

\* pckg.NewCommandFactory
PckgNewCommandFactory(b) ==
    CASE b = PckgBackend.APK -> <<"ok", "APKCommandFactory">>
      [] b = PckgBackend.APT -> <<"ok", "APTCommandFactory">>
      [] b = PckgBackend.DNF -> <<"ok", "DNFCommandFactory">>
      [] b = PckgBackend.Pacman -> <<"ok", "PacmanCommandFactory">>
      [] b = PckgBackend.XBPS -> <<"ok", "XBPSCommandFactory">>
      [] b = PckgBackend.Zypper -> <<"ok", "ZypperCommandFactory">>
      [] OTHER -> Error(<<"unrecognized package manager">>)

\* user.Backend.String
UserString(b) ==
    CASE b = UserBackend.BusyBox -> <<"B", "u", "s", "y", "B", "o", "x">>
      [] b = UserBackend.Shadow -> <<"s", "h", "a", "d", "o", "w", "-", "u", "t", "i", "l", "s">>
      [] OTHER -> <<"u", "n", "k", "n", "o", "w", "n">>

\* user.parseBackendString
UserParseBackendString(s) ==
    LET l == ToLower(s) IN
    CASE l = <<"b", "u", "s", "y", "b", "o", "x">> -> <<"ok", UserBackend.BusyBox>>
      [] l = <<"s", "h", "a", "d", "o", "w">> \/ l = <<"s", "h", "a", "d", "o", "w", "-", "u", "t", "i", "l", "s">> -> <<"ok", UserBackend.Shadow>>
      [] OTHER -> Error(<<"unsupported user management utility">>)

\* user.NewCommandFactory
UserNewCommandFactory(b) ==
    CASE b = UserBackend.BusyBox -> <<"ok", "BusyBoxCommandFactory">>
      [] b = UserBackend.Shadow -> <<"ok", "ShadowCommandFactory">>
      [] OTHER -> Error(<<"unrecognized user and group management utility">>)

\* find.Backend.String
FindString(b) ==
    CASE b = FindBackend.BSD -> <<"B", "S", "D">>
      [] b = FindBackend.BusyBox -> <<"B", "u", "s", "y", "B", "o", "x">>
      [] b = FindBackend.GNU -> <<"G", "N", "U">>
      [] OTHER -> <<"u", "n", "k", "n", "o", "w", "n">>

\* find.parseBackendString
FindParseBackendString(s) ==
    LET l == ToLower(s) IN
    CASE l = <<"b", "s", "d">> -> <<"ok", FindBackend.BSD>>
      [] l = <<"b", "u", "s", "y", "b", "o", "x">> -> <<"ok", FindBackend.BusyBox>>
      [] l = <<"g", "n", "u">> -> <<"ok", FindBackend.GNU>>
      [] OTHER -> Error(<<"unsupported find implementation">>)

\* find.NewCommandFactory
FindNewCommandFactory(b) ==
    CASE b = FindBackend.BSD -> <<"ok", "BSDCommandFactory">>
      [] b = FindBackend.BusyBox -> <<"ok", "BusyBoxCommandFactory">>
      [] b = FindBackend.GNU -> <<"ok", "GNUCommandFactory">>
      [] OTHER -> Error(<<"unrecognized find implementation">>)

\* the values a backend identifier is given: the constants, the zero value,
\* sums of constants, and values between and above the constants
BackendRange == 0..65

\* every spelling of a text that differs from it in letter case only
Spellings(s) ==
    LET swap(c) ==
          IF \E k \in 1..26 : UpperCase[k] = c
          THEN LowerCase[CHOOSE k \in 1..26 : UpperCase[k] = c]
          ELSE IF \E k \in 1..26 : LowerCase[k] = c
          THEN UpperCase[CHOOSE k \in 1..26 : LowerCase[k] = c]
          ELSE c
    IN  {[i \in 1..Len(s) |-> IF i \in m THEN swap(s[i]) ELSE s[i]] :
            m \in {m \in SUBSET (1..Len(s)) : \A i \in m : swap(s[i]) # s[i]}}

\* texts that name no backend on the axis they are parsed on
OtherTexts ==
    {<<>>, <<"u", "n", "k", "n", "o", "w", "n">>, <<"y", "u", "m">>,
     <<"a", "p", "k", " ">>, <<"s", "h", "a", "d", "o", "w", "u", "t", "i", "l", "s">>}

\* the calls made on the backend identifiers: fn is the function called,
\* axis its package, value, text or distro its argument
BackendCall(fn, axis, value, text, distro) ==
    [fn |-> fn, axis |-> axis, value |-> value, text |-> text, distro |-> distro]

BackendCalls(values) ==
    {BackendCall("NewCommandFactory", a, b, <<>>, Unknown) :
        a \in {"pckg", "user", "find"}, b \in values}
    \cup {BackendCall("parseBackendString", "pckg", 0, s, Unknown) :
            s \in OtherTexts \cup UNION {Spellings(PckgString(b)) : b \in values}}
    \cup {BackendCall("parseBackendString", "user", 0, s, Unknown) :
            s \in OtherTexts \cup {<<"S", "h", "a", "d", "o", "w">>}
                  \cup UNION {Spellings(UserString(b)) : b \in values}}
    \cup {BackendCall("parseBackendString", "find", 0, s, Unknown) :
            s \in OtherTexts \cup UNION {Spellings(FindString(b)) : b \in values}}
    \cup {BackendCall("Default", "linux", 0, <<>>, d) : d \in Distros \cup {Unknown}}

\* one call, about to be made
InitBackend ==
    /\ store = [tags |-> [r \in Refs |-> NoImage], journal |-> <<>>]
    /\ \E c \in BackendCalls(BackendRange) :
          cfg = [p \in Procs |-> IF p = "A" THEN c ELSE BackendCall("", "", 0, <<>>, Unknown)]
    /\ pc = [p \in Procs |-> IF p = "A" THEN "call" ELSE "off"]
    /\ ops = [p \in Procs |-> <<>>]
    /\ ret = [p \in Procs |-> Pending]
    /\ ctr = [p \in Procs |-> NoContainer]
    /\ defers = [p \in Procs |-> <<>>]

\* NewCommandFactory(b) of the package cfg[p].axis
CallNewCommandFactory(p) ==
    /\ pc[p] = "call" /\ cfg[p].fn = "NewCommandFactory"
    /\ ret' = [ret EXCEPT ![p] =
                 CASE cfg[p].axis = "pckg" -> PckgNewCommandFactory(cfg[p].value)
                   [] cfg[p].axis = "user" -> UserNewCommandFactory(cfg[p].value)
                   [] cfg[p].axis = "find" -> FindNewCommandFactory(cfg[p].value)]
    /\ pc' = [pc EXCEPT ![p] = "returned"]
    /\ UNCHANGED <<store, cfg, ops, ctr, defers>>

\* BackendWrapper.UnmarshalText(text) of the package cfg[p].axis
CallUnmarshalText(p) ==
    /\ pc[p] = "call" /\ cfg[p].fn = "parseBackendString"
    /\ ret' = [ret EXCEPT ![p] =
                 CASE cfg[p].axis = "pckg" -> PckgParseBackendString(cfg[p].text)
                   [] cfg[p].axis = "user" -> UserParseBackendString(cfg[p].text)
                   [] cfg[p].axis = "find" -> FindParseBackendString(cfg[p].text)]
    /\ pc' = [pc EXCEPT ![p] = "returned"]
    /\ UNCHANGED <<store, cfg, ops, ctr, defers>>

\* the three default lookups of the distro cfg[p].distro
CallDefaults(p) ==
    /\ pc[p] = "call" /\ cfg[p].fn = "Default"
    /\ ret' = [ret EXCEPT ![p] =
                 <<"ok", ValueOf(PckgBackend, DefaultPackageBackend(cfg[p].distro)),
                         ValueOf(UserBackend, DefaultUserBackend(cfg[p].distro)),
                         ValueOf(FindBackend, DefaultFindBackend(cfg[p].distro))>>]
    /\ pc' = [pc EXCEPT ![p] = "returned"]
    /\ UNCHANGED <<store, cfg, ops, ctr, defers>>

NextBackend ==
    \E p \in Procs :
        \/ CallNewCommandFactory(p)
        \/ CallUnmarshalText(p)
        \/ CallDefaults(p)

SpecBackend == InitBackend /\ [][NextBackend]_vars

\* ------------------------------------------------------------------------
\* C24: constructing a command factory
\* ------------------------------------------------------------------------

\* the named constants of each axis and the factory each one stands for
NamedFactories(axis) ==
    CASE axis = "pckg" ->
           (1 :> "APKCommandFactory" @@ 2 :> "APTCommandFactory"
            @@ 4 :> "DNFCommandFactory" @@ 8 :> "PacmanCommandFactory"
            @@ 16 :> "XBPSCommandFactory" @@ 32 :> "ZypperCommandFactory")
      [] axis = "user" -> (1 :> "BusyBoxCommandFactory" @@ 2 :> "ShadowCommandFactory")
      [] axis = "find" ->
           (1 :> "BSDCommandFactory" @@ 2 :> "BusyBoxCommandFactory"
            @@ 4 :> "GNUCommandFactory")

\* C24: on each axis NewCommandFactory returns an error exactly when its
\* argument is the zero value or another value that is no named constant, and
\* returns the factory of the constant otherwise, never another factory
C24_FactoryConstruction ==
    \A p \in Procs :
        (pc[p] = "returned" /\ cfg[p].fn = "NewCommandFactory") =>
            LET named == NamedFactories(cfg[p].axis)
            IN  IF cfg[p].value \in DOMAIN named
                THEN ret[p] = <<"ok", named[cfg[p].value]>>
                ELSE IsError(ret[p])

\* the sum of two package constants was refused
C24_Witness ==
    /\ pc["A"] = "returned" /\ cfg["A"].fn = "NewCommandFactory"
    /\ cfg["A"].axis = "pckg" /\ cfg["A"].value = 3
    /\ ret["A"] = Error(<<"unrecognized package manager">>)

\* the zero value was refused on the find axis
C24_ZeroWitness ==
    /\ pc["A"] = "returned" /\ cfg["A"].fn = "NewCommandFactory"
    /\ cfg["A"].axis = "find" /\ cfg["A"].value = 0
    /\ IsError(ret["A"])

\* ------------------------------------------------------------------------
\* C25: the defaults of a distro
\* ------------------------------------------------------------------------

\* C25: for each of the seven named distros the default package backend,
\* user backend and find backend are named constants, none the zero value
C25_DefaultsNamed ==
    \A p \in Procs :
        (pc[p] = "returned" /\ cfg[p].fn = "Default"
           /\ cfg[p].distro \in {"Alpine", "Arch", "Chimera", "Debian", "Fedora",
                                 "openSUSE", "Void"}) =>
            /\ ret[p][2] \in {1, 2, 4, 8, 16, 32}
            /\ ret[p][3] \in {1, 2}
            /\ ret[p][4] \in {1, 2, 4}

\* the defaults of Chimera: APK, shadow-utils and BSD find
C25_Witness ==
    /\ pc["A"] = "returned" /\ cfg["A"].fn = "Default"
    /\ cfg["A"].distro = "Chimera"
    /\ ret["A"] = <<"ok", 1, 2, 1>>

\* ------------------------------------------------------------------------
\* C26: parsing the display string of a backend
\* ------------------------------------------------------------------------

\* the display string of value b on an axis
StringOn(axis, b) ==
    CASE axis = "pckg" -> PckgString(b)
      [] axis = "user" -> UserString(b)
      [] axis = "find" -> FindString(b)

\* two texts that differ in the case of their letters at most
SameLetters(s, t) ==
    /\ Len(s) = Len(t)
    /\ \A i \in 1..Len(s) :
          \/ s[i] = t[i]
          \/ \E k \in 1..26 : {s[i], t[i]} = {UpperCase[k], LowerCase[k]}

\* C26: on every axis, parsing the display string of a named constant,
\* spelled in any letter case, returns that constant
C26_ParseRoundTrip ==
    \A p \in Procs :
        (pc[p] = "returned" /\ cfg[p].fn = "parseBackendString") =>
            \A b \in DOMAIN NamedFactories(cfg[p].axis) :
                SameLetters(cfg[p].text, StringOn(cfg[p].axis, b)) =>
                    ret[p] = <<"ok", b>>

\* "Apk" was parsed to the APK constant
C26_Witness ==
    /\ pc["A"] = "returned" /\ cfg["A"].fn = "parseBackendString"
    /\ cfg["A"].axis = "pckg" /\ cfg["A"].text = <<"A", "p", "k">>
    /\ ret["A"] = <<"ok", 1>>

\* "SHADOW-utils" was parsed to the shadow-utils constant
C26_ShadowWitness ==
    /\ pc["A"] = "returned" /\ cfg["A"].fn = "parseBackendString"
    /\ cfg["A"].axis = "user"
    /\ cfg["A"].text = <<"S", "H", "A", "D", "O", "W", "-", "u", "t", "i", "l", "s">>
    /\ ret["A"] = <<"ok", 2>>

\* ------------------------------------------------------------------------
\* C27: the names a parser returns
\* ------------------------------------------------------------------------

\* the packages the rows of a listing were printed for, in the order of the rows
Listed(rows) == [i \in 1..Len(rows) |-> rows[i].pkg]

\* every line after the header is a row of a package in the tool's format
WellFormed(rows) == \A i \in 1..Len(rows) : rows[i].pkg # ""

\* the list command of the run has succeeded and List has returned
HasListed(p) == pc[p] = "listed" /\ ops[p][1].ok

\* the lines after the header among the lines the parser of the run was
\* handed
DataLines(p) ==
    LET lines == SplitLines(ReplaceAll(TrimSpace(ops[p][1].out)))
    IN  SubSeq(lines, Len(Header(cfg[p].package)) + 1, Len(lines))

\* every line after the header that the parser was handed is a row of a
\* package in the tool's format
AllRows(p) ==
    /\ WellFormed(cfg[p].installed)
    /\ DataLines(p) = [i \in 1..Len(cfg[p].installed) |-> cfg[p].installed[i].line]

\* C27: when every line after the header is a row in the tool's format, the
\* parser applied to the lines of the tool's output returns the bare name of
\* each row, one per row, in the order of the rows: DNF without the header
\* line and without the .arch of the first field, APK without the version
\* and the revision
C27_BareNames ==
    \A p \in Procs :
        (HasListed(p) /\ AllRows(p)) => ret[p] = <<"ok", Listed(cfg[p].installed)>>

\* the APK parser kept the hyphens of a name and the order of the rows
C27_Witness ==
    /\ HasListed("A") /\ cfg["A"].package = "APK"
    /\ Listed(cfg["A"].installed) = <<"musl", "alpine-baselayout-data", "musl">>
    /\ ret["A"] = <<"ok", <<"musl", "alpine-baselayout-data", "musl">>>>

\* the DNF parser skipped the header and removed the architecture
C27_DNFWitness ==
    /\ HasListed("A") /\ cfg["A"].package = "DNF"
    /\ Len(LinesOf(cfg["A"])) = 3
    /\ ret["A"] = <<"ok", <<"python3.11", "bash">>>>

\* ------------------------------------------------------------------------
\* C28: lines that are not in the tool's format
\* ------------------------------------------------------------------------

\* C28: a parser returns an error, and no list, when a line after the
\* header is not a row in the tool's format
C28_MalformedLineFails ==
    \A p \in Procs :
        (HasListed(p) /\ ~AllRows(p)) => IsError(ret[p])

\* the APT parser returned a line of two fields as a package name
C28_Witness ==
    /\ HasListed("A") /\ cfg["A"].package = "APT"
    /\ ops["A"][1].out = <<"bash", LF, "bash", " ", "5.2.15", LF>>
    /\ ret["A"] = <<"ok", <<"bash", "bash 5.2.15">>>>

\* ------------------------------------------------------------------------
\* C29: chmod and the empty path
\* ------------------------------------------------------------------------

\* C29: no chmod is given the empty string as a path, and when find has
\* succeeded with an output that holds no path (nothing, or white space and
\* line terminators only) no chmod is issued
C29_NoEmptyPath ==
    \A p \in Procs :
        LET log == ops[p] IN
        /\ \A i \in Indices(log) :
              log[i].cmd = "chmod" => "" \notin Range(log[i].argv)
        /\ \A i \in Indices(log) :
              (log[i].cmd = "find" /\ log[i].ok /\ Range(log[i].out) \subseteq WhiteSpace) =>
                  ~\E j \in Indices(log) : log[j].cmd = "chmod"

\* find printed a line terminator and chmod was given the empty path
C29_Witness ==
    \E i, j \in Indices(ops["A"]) :
        /\ ops["A"][i].cmd = "find" /\ ops["A"][i].ok /\ ops["A"][i].out = <<LF>>
        /\ ops["A"][j].cmd = "chmod" /\ ops["A"][j].argv = <<"chmod", "-s", "">>


(***************************************************************************)
(* C30: clearing the inherited annotations                                 *)
(***************************************************************************)

\* the key begins with "org.opencontainers.image.base"
BeginsWithOCIBase(k) ==
    Len(k) >= Len(OCIBase) /\ \A i \in 1..Len(OCIBase) : k[i] = OCIBase[i]

\* the annotations the spec declares, the digest of the spec file included
Declared(c) == WithDigest(c.annotations, c.digest)

\* C30: when the clear-annotations toggle is set, configuration removes every
\* annotation inherited from the base image except those whose key begins
\* with "org.opencontainers.image.base", and the annotations declared in the
\* spec, the injected digest annotation included, are set afterwards and are
\* present in the final configuration.
C30_ClearKeepsBaseAnnotations ==
    \A p \in Procs :
        (pc[p] = "commit" /\ cfg[p].clearAnnotations) =>
            /\ \A k \in DOMAIN cfg[p].baseAnnotations \ DOMAIN Declared(cfg[p]) :
                   k \in DOMAIN ctr[p].annotations <=> BeginsWithOCIBase(k)
            /\ \A k \in DOMAIN Declared(cfg[p]) :
                   /\ k \in DOMAIN ctr[p].annotations
                   /\ ctr[p].annotations[k] = Declared(cfg[p])[k]

\* a build that cleared the annotations of a base image naming its own base:
\* the name of the base is gone, the digest of the spec file is there
C30_Witness ==
    \E p \in Procs :
        /\ pc[p] = "commit"
        /\ cfg[p].clearAnnotations
        /\ (OCIBase \o <<".name">>) \in DOMAIN cfg[p].baseAnnotations
        /\ (OCIBase \o <<".name">>) \notin DOMAIN ctr[p].annotations
        /\ <<"org.opencontainers.image">> \in DOMAIN ctr[p].annotations
        /\ <<"org.github.ok-ryoko.turret.spec.digest">> \in DOMAIN ctr[p].annotations

====
